---- MODULE Spec2Model ----
(***************************************************************************)
(* The distributed work pipeline of locplace/scanner: the durable queue    *)
(* (domain_files, scan_batches, scanner_sessions, scanner_clients), the    *)
(* feeder, the reaper, the coordinator's scanner endpoints and the scanner *)
(* worker loop.                                                            *)
(*                                                                         *)
(* Timestamps are kept as the elapsed time NOW() - t, saturating one past  *)
(* the timeout they are compared with, so that the SQL predicate           *)
(* `t < NOW() - timeout` reads `age > timeout`.  Transactions run at       *)
(* PostgreSQL's default READ COMMITTED level (db.Pool.Begin without        *)
(* options): a plain SELECT takes no lock, and the statements from the     *)
(* first row lock of a transaction to its COMMIT take effect as one step.  *)
(***************************************************************************)
EXTENDS Integers, Naturals, Sequences, FiniteSets, TLC

\* Configured durations (HEARTBEAT_TIMEOUT, BATCH_TIMEOUT) in clock ticks.
HeartbeatTimeout == 1
BatchTimeout == 1
\* Feeder configuration (BATCH_SIZE, MAX_PENDING_BATCHES).
BatchSize == 2
MaxPendingBatches == 1
\* Largest id the scan_batches BIGSERIAL sequence hands out in the model.
MaxBatchId == 4
\* Worker configuration (RetryDelay, MaxBackoff, EmptyQueueDelay) in ticks,
\* and the largest consecutive-error count the model follows.
RetryDelay == 1
MaxBackoff == 5
EmptyQueueDelay == 2
MaxErrors == 5

NULL == "NULL"
NoTime == -1
NoBatch == 0

\* Scanner processes, named by the session id each generates at start-up,
\* and the registered client whose bearer token each one uses.
Sessions == {"s1", "s2"}
Clients == {"c1", "c2"}
ClientOf(s) == IF s = "s1" THEN "c1" ELSE "c2"

\* domain_files rows (id order = filename order) and the upstream content of
\* each file: TRUE is a line holding an FQDN, FALSE a blank or '#' line.
Files == {1}
FileLines(f) == <<TRUE, FALSE, TRUE, FALSE, TRUE>>

\* The filenames the upstream repository can list, in filename order; the
\* discovery scan adds the ones domain_files does not hold yet.
Upstream == {1, 2}

VARIABLES
  files,        \* domain_files: id -> row
  batches,      \* scan_batches: id -> row, for the ids that exist
  nextBatchId,  \* scan_batches id sequence
  sessions,     \* scanner_sessions: id -> age of last_heartbeat, NoTime if no row
  clients,      \* scanner_clients: id -> [last_heartbeat, session_id]
  feeder,       \* the feeder goroutine: position and locals of Run/processFile
  workers,      \* one worker goroutine per scanner process
  scanner,      \* each scanner process: signals received, work context cancelled
  run,          \* Worker.Run of one worker, step by step
  dns,          \* one LookupLOCBatch call: semaphore, resolver pool, goroutines
  loc_records,  \* loc_records: fqdn -> row, for the fqdns that have one
  now,          \* the database clock, NOW()
  parse,        \* a raw LOC text handed to the parsers, and their results
  pickers,      \* concurrent GetNextFileToProcess calls: position and row read
  op            \* the operation that produced the current state (history)

vars == <<files, batches, nextBatchId, sessions, clients, feeder, workers, scanner,
          run, dns, loc_records, now, parse, pickers, op>>

\* The variables of the queue and its processes, and those of the parts
\* that are looked at on their own.
pipeline == <<files, batches, nextBatchId, sessions, clients, feeder, workers, scanner>>
aside == <<run, dns, loc_records, now, parse, pickers>>

Min(a, b) == IF a < b THEN a ELSE b

\* The parts looked at on their own, before anything has run.
\* DNSConfig.Workers of the modelled scanner, and the most FQDNs one
\* LookupLOCBatch call is given (more than DNSWorkers, so that lookups queue).
DNSWorkers == 2
\* The clock read by NOW() in UpsertLOCRecord runs from 0 to MaxNow; a
\* submission carries at most MaxRecords LOC records.
MaxNow == 2
MaxRecords == 2
\* A parser input has at most MaxTail words after its coordinates.
MaxTail == 4
MaxFqdns == 3

\* The callers of GetNextFileToProcess that may run at the same time (two
\* feeder instances, or a feeder and a manual trigger).
Pickers == {"p1", "p2"}
PickersInit == [p \in Pickers |-> [pc |-> "idle", file |-> 0, status |-> NULL]]

\* A worker built from DefaultWorkerConfig, on its own: no other worker, the
\* heartbeat task of its scanner running.
RunInit ==
  [pc |-> "top", consecutiveErrors |-> 0, timer |-> 0, woken |-> "none",
   batch |-> 0, attempt |-> 0, shutdown |-> FALSE, cancelled |-> FALSE,
   config |-> "DefaultWorkerConfig", heartbeat |-> "running", others |-> 0,
   returned |-> FALSE]
\* Scanner.Run has started: the heartbeat task runs, and so do the worker
\* followed step by step and one more worker, built from Run's WorkerConfig.
ScannerRunInit ==
  [RunInit EXCEPT !.config = "Scanner.Run", !.others = 1]
DnsInit ==
    [pc |-> "idle", g |-> [i \in 1..MaxFqdns |-> "none"], sem |-> 0, pool |-> 0,
     inited |-> FALSE, initErr |-> FALSE, ctxDone |-> FALSE, results |-> 0,
     workers |-> DNSWorkers, closed |-> FALSE, created |-> 0, freed |-> 0]
\* A LOC record text as its whitespace-separated words, with or without
\* leading and trailing whitespace; the results of the two parsers on it.
NotParsed == [done |-> FALSE]
ParseInit ==
    [raw |-> [lead |-> FALSE, words |-> <<>>, trail |-> FALSE],
     strict |-> NotParsed, lenient |-> NotParsed]

Age(t, cap) == IF t = NoTime THEN NoTime ELSE Min(t + 1, cap)

OpRec(name, who, batch, prev, n) ==
  [name |-> name, who |-> who, batch |-> batch, prev |-> prev, n |-> n]

----------------------------------------------------------------------------
(* Store operations, as functions of the tables they touch.                *)

\* Rows locked by an open ClaimBatch transaction (SELECT ... FOR UPDATE).
Locked == {workers[s].batch : s \in {t \in Sessions : workers[t].pc = "claim"}}

SetMin(S) == CHOOSE x \in S : \A y \in S : x <= y

ClaimSelect_NoSkipLocked(bs, locked) ==
  LET cand == {b \in DOMAIN bs : bs[b].status = "pending"}
  IN IF cand = {} THEN NoBatch ELSE SetMin(cand)

\* SELECT id ... WHERE status = 'pending' ORDER BY id LIMIT 1
\* FOR UPDATE SKIP LOCKED
ClaimSelect(bs, locked) ==
  LET cand == {b \in DOMAIN bs : bs[b].status = "pending" /\ b \notin locked}
  IN IF cand = {} THEN NoBatch ELSE SetMin(cand)

ClaimUpdate_NoSession(bs, b, scannerID, sessionID) ==
  [bs EXCEPT ![b] = [@ EXCEPT !.status = "in_flight", !.assigned_at = 0,
                              !.scanner_id = scannerID]]

\* UPDATE scan_batches SET status = 'in_flight', assigned_at = NOW(),
\* scanner_id = $2, session_id = $3 WHERE id = $1
ClaimUpdate(bs, b, scannerID, sessionID) ==
  [bs EXCEPT ![b] = [@ EXCEPT !.status = "in_flight", !.assigned_at = 0,
                              !.scanner_id = scannerID, !.session_id = sessionID]]

GetPendingBatchCount_Zero(bs) == 0

\* SELECT COUNT(*) FROM scan_batches WHERE status = 'pending'
GetPendingBatchCount(bs) == Cardinality({b \in DOMAIN bs : bs[b].status = "pending"})

\* INSERT INTO scan_batches (file_id, line_start, line_end, domains)
InsertBatch(bs, id, f, lineStart, lineEnd) ==
  (id :> [file_id |-> f, line_start |-> lineStart, line_end |-> lineEnd,
          status |-> "pending", assigned_at |-> NoTime,
          scanner_id |-> NULL, session_id |-> NULL]) @@ bs

UpdateProgress_CountOnly(fs, f, lineEnd) ==
  [fs EXCEPT ![f] = [@ EXCEPT !.batches_created = @ + 1]]

\* UPDATE domain_files SET processed_lines = $2,
\* batches_created = batches_created + 1 WHERE id = $1
UpdateProgress(fs, f, lineEnd) ==
  [fs EXCEPT ![f] = [@ EXCEPT !.processed_lines = lineEnd,
                              !.batches_created = @ + 1]]

DeleteBatch_WholeFile(bs, b) ==
  IF b \in DOMAIN bs
    THEN [x \in {y \in DOMAIN bs : bs[y].file_id # bs[b].file_id} |-> bs[x]]
    ELSE bs

DeleteBatch_Keep(bs, b) == bs

\* DELETE FROM scan_batches WHERE id = $1 (the rows affected are not checked)
DeleteBatch(bs, b) == [x \in DOMAIN bs \ {b} |-> bs[x]]

IncrementCompleted_Lost(fs, f) == fs

\* UPDATE domain_files SET batches_completed = batches_completed + 1
IncrementCompleted(fs, f) == [fs EXCEPT ![f].batches_completed = @ + 1]

ResetStaleBatches_AnySession(bs) ==
  [b \in DOMAIN bs |->
     IF bs[b].status = "in_flight" /\ bs[b].assigned_at > BatchTimeout
       THEN [bs[b] EXCEPT !.status = "pending", !.assigned_at = NoTime,
                          !.scanner_id = NULL, !.session_id = NULL]
       ELSE bs[b]]

\* UPDATE scan_batches SET status = 'pending', ... WHERE status = 'in_flight'
\* AND session_id IS NULL AND assigned_at < NOW() - $1::interval
ResetStaleBatches(bs) ==
  [b \in DOMAIN bs |->
     IF /\ bs[b].status = "in_flight"
        /\ bs[b].session_id = NULL
        /\ bs[b].assigned_at > BatchTimeout
       THEN [bs[b] EXCEPT !.status = "pending", !.assigned_at = NoTime,
                          !.scanner_id = NULL, !.session_id = NULL]
       ELSE bs[b]]

DeadSession(ss, id) == id \in Sessions /\ ss[id] # NoTime /\ ss[id] > HeartbeatTimeout

ResetBatchesFromDeadSessions_KeepSession(bs, ss) ==
  [b \in DOMAIN bs |->
     IF bs[b].status = "in_flight" /\ DeadSession(ss, bs[b].session_id)
       THEN [bs[b] EXCEPT !.status = "pending", !.assigned_at = NoTime,
                          !.scanner_id = NULL]
       ELSE bs[b]]

\* UPDATE scan_batches b SET status = 'pending', assigned_at = NULL,
\* scanner_id = NULL, session_id = NULL FROM scanner_sessions s
\* WHERE b.session_id = s.id AND b.status = 'in_flight'
\* AND s.last_heartbeat < NOW() - $1::interval
ResetBatchesFromDeadSessions(bs, ss) ==
  [b \in DOMAIN bs |->
     IF bs[b].status = "in_flight" /\ DeadSession(ss, bs[b].session_id)
       THEN [bs[b] EXCEPT !.status = "pending", !.assigned_at = NoTime,
                          !.scanner_id = NULL, !.session_id = NULL]
       ELSE bs[b]]

RowsAffected(old, new) == Cardinality({b \in DOMAIN old : new[b] # old[b]})

CheckAndMarkFileComplete_NoPredicate(fs, f) == [fs EXCEPT ![f].status = "complete"]

\* UPDATE domain_files SET status = 'complete', completed_at = NOW()
\* WHERE id = $1 AND feeding_complete = true
\* AND batches_created = batches_completed AND status = 'processing'
CheckAndMarkFileComplete(fs, f) ==
  IF /\ fs[f].feeding_complete
     /\ fs[f].batches_created = fs[f].batches_completed
     /\ fs[f].status = "processing"
    THEN [fs EXCEPT ![f].status = "complete"]
    ELSE fs

MarkFeedingComplete(fs, f) == [fs EXCEPT ![f].feeding_complete = TRUE]

\* UPDATE domain_files SET status = 'pending', processed_lines = 0, ...
\* (every row; scan_batches is not touched)
ResetAllFiles(fs) ==
  [f \in DOMAIN fs |->
     [status |-> "pending", processed_lines |-> 0, batches_created |-> 0,
      batches_completed |-> 0, feeding_complete |-> FALSE]]

\* INSERT INTO domain_files (filename, url, size_bytes) ... ON CONFLICT
\* (filename) DO UPDATE SET url, size_bytes: a new row takes the defaults.
UpsertDomainFile(fs, f) ==
  IF f \in DOMAIN fs
    THEN fs
    ELSE (f :> [status |-> "pending", processed_lines |-> 0,
                batches_created |-> 0, batches_completed |-> 0,
                feeding_complete |-> FALSE]) @@ fs

\* INSERT INTO scanner_sessions ... ON CONFLICT (id) DO UPDATE
\* SET last_heartbeat = NOW()
\* SELECT ... FROM scanner_clients WHERE token_hash = $1: is there a row for
\* the client whose token the request carries?
GetClientByToken(cs, clientID) == clientID \in DOMAIN cs

\* fk_scan_batches_scanner: FOREIGN KEY (scanner_id) REFERENCES
\* scanner_clients(id) ON DELETE SET NULL
OnDeleteSetNull(bs, clientID) ==
  [b \in DOMAIN bs |->
     IF bs[b].scanner_id = clientID THEN [bs[b] EXCEPT !.scanner_id = NULL]
                                    ELSE bs[b]]

UpsertSession(ss, clientID, sessionID) == [ss EXCEPT ![sessionID] = 0]

\* UPDATE scanner_clients SET last_heartbeat = NOW(), session_id = $2
UpdateHeartbeat(cs, clientID, sessionID) ==
  [cs EXCEPT ![clientID] = [last_heartbeat |-> 0, session_id |-> sessionID]]

GetNextFileToProcess_ByFilename(fs) ==
  LET ok == {f \in DOMAIN fs :
               /\ fs[f].status \in {"processing", "pending"}
               /\ ~(fs[f].feeding_complete
                    /\ fs[f].batches_completed < fs[f].batches_created)}
  IN IF ok # {} THEN SetMin(ok) ELSE 0

\* WHERE status IN ('processing','pending') AND NOT (feeding_complete = true
\* AND batches_completed < batches_created)
\* ORDER BY CASE status WHEN 'processing' THEN 0 ELSE 1 END, filename LIMIT 1
GetNextFileToProcess(fs) ==
  LET ok(f) == /\ fs[f].status \in {"processing", "pending"}
               /\ ~(fs[f].feeding_complete
                    /\ fs[f].batches_completed < fs[f].batches_created)
      proc == {f \in DOMAIN fs : ok(f) /\ fs[f].status = "processing"}
      pend == {f \in DOMAIN fs : ok(f) /\ fs[f].status = "pending"}
  IN IF proc # {} THEN SetMin(proc)
     ELSE IF pend # {} THEN SetMin(pend)
     ELSE 0

----------------------------------------------------------------------------
(* The feeder's line scan: from lineNum with an empty batch buffer, read   *)
(* on until the buffer holds BatchSize names or the stream ends.           *)

SkipLine_NoResume(n, skipToLine, line) == ~line

\* if lineNum <= skipToLine { continue }; blank and '#' lines are passed over
SkipLine(n, skipToLine, line) == n <= skipToLine \/ ~line

BatchFull_Never(len) == FALSE

\* if len(batch) >= f.Config.BatchSize
BatchFull(len) == len >= BatchSize

RECURSIVE ScanLines(_, _, _, _, _)
ScanLines(lines, lineNum, skipToLine, batchStart, len) ==
  IF lineNum = Len(lines)
    THEN [lineNum |-> lineNum, batchStart |-> batchStart, len |-> len]
    ELSE LET n == lineNum + 1 IN
         IF SkipLine(n, skipToLine, lines[n])
           THEN ScanLines(lines, n, skipToLine, batchStart, len)
           ELSE LET bs == IF len = 0 THEN n ELSE batchStart IN
                IF BatchFull(len + 1)
                  THEN [lineNum |-> n, batchStart |-> bs, len |-> len + 1]
                  ELSE ScanLines(lines, n, skipToLine, bs, len + 1)

----------------------------------------------------------------------------
Init ==
  /\ files = [f \in Files |->
       [status |-> "pending", processed_lines |-> 0, batches_created |-> 0,
        batches_completed |-> 0, feeding_complete |-> FALSE]]
  /\ batches = <<>>
  /\ nextBatchId = 1
  /\ sessions = [s \in Sessions |-> NoTime]
  /\ clients = [c \in Clients |-> [last_heartbeat |-> NoTime, session_id |-> NULL]]
  /\ scanner = [s \in Sessions |-> [signals |-> 0, cancelled |-> FALSE]]
  /\ run = RunInit
  /\ dns = DnsInit
  /\ loc_records = {}
  /\ now = 0
  /\ pickers = PickersInit
  /\ parse = ParseInit
  /\ feeder = [pc |-> "idle", file |-> 0, lineNum |-> 0, skipToLine |-> 0,
               batchStart |-> 0, batchLen |-> 0]
  /\ workers = [s \in Sessions |->
       [pc |-> "idle", batch |-> NoBatch, attempt |-> 0, file |-> 0]]
  /\ op = OpRec("init", NULL, NoBatch, NULL, 0)

----------------------------------------------------------------------------
(* loc_records: the table of discovered LOC records, a set of rows.  Of a  *)
(* record the model keeps fqdn, raw_record, latitude, longitude and        *)
(* altitude_m; size and the two precisions are stored like altitude_m.     *)

\* FQDNs that scanners report, and the LOC data a lookup may have returned:
\* two records on the same point that differ in altitude and text (both on
\* the edge of the valid range), one with latitude 91, one with longitude -181.
FQDNS == {"a.example", "b.example"}
LOCData ==
  { [raw_record |-> "r1", latitude |-> 90, longitude |-> -180, altitude_m |-> 0],
    [raw_record |-> "r2", latitude |-> 90, longitude |-> -180, altitude_m |-> 5],
    [raw_record |-> "r3", latitude |-> 91, longitude |-> -180, altitude_m |-> 0],
    [raw_record |-> "r4", latitude |-> 90, longitude |-> -181, altitude_m |-> 0] }

\* api.LOCRecord values and the LOCRecords arrays of a SubmitBatchRequest.
LOCRecords ==
  { [fqdn |-> f, raw_record |-> d.raw_record, latitude |-> d.latitude,
     longitude |-> d.longitude, altitude_m |-> d.altitude_m] :
       f \in FQDNS, d \in LOCData }
Submissions == UNION { [1..n -> LOCRecords] : n \in 0..MaxRecords }

valid_coordinates_LatitudeOnly(r) == r.latitude >= -90 /\ r.latitude <= 90

\* CONSTRAINT valid_coordinates CHECK (...)
valid_coordinates(r) ==
  /\ r.latitude >= -90 /\ r.latitude <= 90
  /\ r.longitude >= -180 /\ r.longitude <= 180

OnConflict_Insert(rows, rec) == {}

\* ON CONFLICT (fqdn): the rows the INSERT conflicts with.
OnConflict(rows, rec) == {r \in rows : r.fqdn = rec.fqdn}

\* The row an upsert of rec at time t leaves: a new row seen first and last
\* at t, or the conflicting row with the new data and last_seen_at = NOW().
UpsertRow(rows, rec, t) ==
  IF OnConflict(rows, rec) = {}
    THEN [fqdn |-> rec.fqdn, raw_record |-> rec.raw_record,
          latitude |-> rec.latitude, longitude |-> rec.longitude,
          altitude_m |-> rec.altitude_m, first_seen_at |-> t, last_seen_at |-> t]
    ELSE LET old == CHOOSE r \in OnConflict(rows, rec) : TRUE IN
         [old EXCEPT !.raw_record = rec.raw_record, !.latitude = rec.latitude,
                     !.longitude = rec.longitude, !.altitude_m = rec.altitude_m,
                     !.last_seen_at = t]

\* UpsertLOCRecord: err is TRUE when the statement fails on the CHECK
\* constraint, and the table is then as before.
UpsertLOCRecord(rows, rec, t) ==
  IF valid_coordinates(UpsertRow(rows, rec, t))
    THEN [err |-> FALSE,
          rows |-> (rows \ OnConflict(rows, rec)) \cup {UpsertRow(rows, rec, t)}]
    ELSE [err |-> TRUE, rows |-> rows]

\* The loop of SubmitResults over req.LOCRecords: `continue` on an error,
\* accepted++ otherwise.
RECURSIVE StoreLOCRecords(_, _, _)
StoreLOCRecords(rows, recs, t) ==
  IF recs = <<>>
    THEN [rows |-> rows, accepted |-> 0]
    ELSE LET u == UpsertLOCRecord(rows, Head(recs), t)
             rest == StoreLOCRecords(u.rows, Tail(recs), t) IN
         [rows |-> rest.rows,
          accepted |-> rest.accepted + (IF u.err THEN 0 ELSE 1)]

\* GROUP BY latitude, longitude (for comparison).
GroupKey_Point(r) == <<r.latitude, r.longitude>>

\* GROUP BY latitude, longitude, altitude_m, raw_record
GroupKey(r) == <<r.latitude, r.longitude, r.altitude_m, r.raw_record>>

\* GetAggregatedLocationsForGeoJSON: one api.AggregatedLocation per group,
\* fqdns being array_agg(fqdn) (one entry per row of the group) and count
\* COUNT(*).  GetRecordsGeoJSON turns each into one feature.  The order of
\* the features (newest last_seen_at first) is not modelled.
GetAggregatedLocationsForGeoJSON(rows) ==
  { LET group == {r \in rows : GroupKey(r) = k}
        some == CHOOSE r \in group : TRUE IN
    [fqdns |-> [f \in {r.fqdn : r \in group} |->
                  Cardinality({r \in group : r.fqdn = f})],
     raw_record |-> some.raw_record, latitude |-> some.latitude,
     longitude |-> some.longitude, altitude_m |-> some.altitude_m,
     count |-> Cardinality(group),
     first_seen_at |-> CHOOSE t \in {r.first_seen_at : r \in group} :
                         \A r \in group : t <= r.first_seen_at,
     last_seen_at |-> CHOOSE t \in {r.last_seen_at : r \in group} :
                        \A r \in group : t >= r.last_seen_at]
    : k \in {GroupKey(r) : r \in rows} }

----------------------------------------------------------------------------
(* Coordinator: scanner endpoints.                                         *)

\* POST /api/scanner/jobs up to the locking SELECT of ClaimBatch; with no
\* claimable row the transaction ends and the response is {domains: []}.
GetJobs(s) ==
  /\ workers[s].pc = "idle"
  /\ ~scanner[s].cancelled
  /\ GetClientByToken(clients, ClientOf(s))
  /\ sessions' = UpsertSession(sessions, ClientOf(s), s)
  /\ clients' = UpdateHeartbeat(clients, ClientOf(s), s)
  /\ LET b == ClaimSelect(batches, Locked) IN
       /\ workers' = IF b = NoBatch
                       THEN workers
                       ELSE [workers EXCEPT ![s].pc = "claim", ![s].batch = b]
       /\ op' = OpRec("GetJobs", NULL, NoBatch, NULL, 0)
  /\ UNCHANGED <<aside, scanner, files, batches, nextBatchId, feeder>>

\* ClaimBatch from its UPDATE to COMMIT, and the worker receiving the batch.
ClaimBatch(s) ==
  /\ workers[s].pc = "claim"
  /\ ClientOf(s) \in DOMAIN clients
  /\ LET b == workers[s].batch IN
       /\ batches' = ClaimUpdate(batches, b, ClientOf(s), s)
       /\ op' = OpRec("ClaimBatch", s, b, batches[b].status, 0)
  /\ workers' = [workers EXCEPT ![s].pc = "hold", ![s].attempt = 1]
  /\ UNCHANGED <<aside, scanner, files, nextBatchId, sessions, clients, feeder>>

\* The worker's handling of a failed submit attempt: retry up to 3 times,
\* then log the lost results and go back to claiming.
SubmitFailed(w) ==
  IF w.attempt < 3
    THEN [w EXCEPT !.pc = "hold", !.attempt = @ + 1, !.file = 0]
    ELSE [w EXCEPT !.pc = "idle", !.batch = NoBatch, !.attempt = 0, !.file = 0]

\* A submit attempt that never reaches the coordinator (transport error).
SubmitError(s) ==
  /\ workers[s].pc = "hold"
  /\ ~scanner[s].cancelled
  /\ workers' = [workers EXCEPT ![s] = SubmitFailed(@)]
  /\ op' = OpRec(IF workers[s].attempt < 3 THEN "SubmitRetry" ELSE "SubmitLost",
                 s, workers[s].batch, NULL, workers[s].attempt)
  /\ UNCHANGED <<aside, scanner, files, batches, nextBatchId, sessions, clients, feeder>>

\* POST /api/scanner/results up to the SELECT of CompleteBatch: the LOC records
\* of the request are upserted one by one (a failed upsert is skipped), then
\* CompleteBatch looks for the row; without it the handler answers 500, the
\* records already stored stay.  op.n is the handler's `accepted`.
SubmitBatch(s, recs) ==
  /\ workers[s].pc = "hold"
  /\ ~scanner[s].cancelled
  /\ GetClientByToken(clients, ClientOf(s))
  /\ loc_records' = StoreLOCRecords(loc_records, recs, now).rows
  /\ LET b == workers[s].batch
         accepted == StoreLOCRecords(loc_records, recs, now).accepted IN
       IF b \in DOMAIN batches
         THEN /\ workers' = [workers EXCEPT ![s].pc = "complete",
                                            ![s].file = batches[b].file_id]
              /\ op' = OpRec("SubmitResults", s, b, batches[b].status, accepted)
                          @@ [recs |-> recs]
         ELSE /\ workers' = [workers EXCEPT ![s] = SubmitFailed(@)]
              /\ op' = OpRec("SubmitRejected", s, b, NULL, workers[s].attempt)
                          @@ [recs |-> recs]
  /\ UNCHANGED <<run, dns, now, parse, pickers, scanner, files, batches, nextBatchId,
                 sessions, clients, feeder>>

\* A submission of a batch in which no LOC record was found.
SubmitResults(s) == SubmitBatch(s, <<>>)

\* A submission that carries LOC records.
SubmitLOCRecords(s) == \E recs \in Submissions \ {<<>>} : SubmitBatch(s, recs)

\* CompleteBatch from its DELETE to COMMIT; the DELETE waits for a row lock.
CompleteBatch(s) ==
  /\ workers[s].pc = "complete"
  /\ LET b == workers[s].batch
         f == workers[s].file IN
       /\ b \notin Locked
       /\ batches' = DeleteBatch(batches, b)
       /\ files' = IncrementCompleted(files, f)
       /\ op' = OpRec("CompleteBatch", s, b,
                      IF b \in DOMAIN batches THEN batches[b].status ELSE "gone",
                      IF b \in DOMAIN batches THEN 1 ELSE 0)
  /\ workers' = [workers EXCEPT ![s].pc = "close"]
  /\ UNCHANGED <<aside, scanner, nextBatchId, sessions, clients, feeder>>

\* The rest of SubmitResults: the opportunistic file close and the 200
\* response, on which the worker returns to claiming.
CloseFile(s) ==
  /\ workers[s].pc = "close"
  /\ files' = CheckAndMarkFileComplete(files, workers[s].file)
  /\ workers' = [workers EXCEPT ![s] = [pc |-> "idle", batch |-> NoBatch,
                                        attempt |-> 0, file |-> 0]]
  /\ op' = OpRec("CloseFile", s, workers[s].batch,
                 IF files' # files THEN "closed" ELSE NULL, 0)
  /\ UNCHANGED <<aside, scanner, batches, nextBatchId, sessions, clients, feeder>>

\* POST /api/scanner/heartbeat, sent by the scanner's heartbeat task.
Heartbeat(s) ==
  /\ ~scanner[s].cancelled
  /\ GetClientByToken(clients, ClientOf(s))
  /\ sessions' = UpsertSession(sessions, ClientOf(s), s)
  /\ clients' = UpdateHeartbeat(clients, ClientOf(s), s)
  /\ op' = OpRec("Heartbeat", s, NoBatch, NULL, 0)
  /\ UNCHANGED <<aside, scanner, files, batches, nextBatchId, feeder, workers>>

----------------------------------------------------------------------------
(* Reaper and admin.                                                       *)

runOnce ==
  LET afterDead == ResetBatchesFromDeadSessions(batches, sessions)
      afterStale == ResetStaleBatches(afterDead)
  IN /\ batches' = afterStale
     /\ op' = OpRec("runOnce", NULL, NoBatch, NULL,
                    RowsAffected(batches, afterDead) + RowsAffected(afterDead, afterStale))
     /\ UNCHANGED <<aside, scanner, files, nextBatchId, sessions, clients, feeder, workers>>

\* POST /api/admin/reset-scan
ResetScan ==
  /\ files' = ResetAllFiles(files)
  /\ op' = OpRec("ResetScan", NULL, NoBatch, NULL, 0)
  /\ UNCHANGED <<aside, scanner, batches, nextBatchId, sessions, clients, feeder, workers>>

\* DELETE /api/admin/clients/{id}: the client row goes, the foreign key
\* nulls scanner_id on its batches.  Whether its scanner_sessions rows go
\* with it depends on that table's constraint: both outcomes are allowed.
DeleteClient(c) ==
  /\ c \in DOMAIN clients
  /\ clients' = [x \in DOMAIN clients \ {c} |-> clients[x]]
  /\ batches' = OnDeleteSetNull(batches, c)
  /\ \E cascade \in BOOLEAN :
       sessions' = [s \in Sessions |->
                      IF cascade /\ ClientOf(s) = c THEN NoTime ELSE sessions[s]]
  /\ op' = OpRec("DeleteClient", c, NoBatch, NULL, 0)
  /\ UNCHANGED <<aside, scanner, files, nextBatchId, feeder, workers>>

\* ClaimBatch's UPDATE for a client deleted since the request was
\* authenticated: the foreign key rejects scanner_id, the transaction rolls
\* back and GetJobs answers 500.
ClaimRejected(s) ==
  /\ workers[s].pc = "claim"
  /\ ClientOf(s) \notin DOMAIN clients
  /\ workers' = [workers EXCEPT ![s].pc = "idle", ![s].batch = NoBatch]
  /\ op' = OpRec("ClaimRejected", s, workers[s].batch, NULL, 0)
  /\ UNCHANGED <<aside, scanner, files, batches, nextBatchId, sessions, clients, feeder>>

\* A submit attempt by a scanner whose client was deleted: ScannerAuth
\* answers 401 and the worker handles it as a failed attempt.
SubmitUnauthorized(s) ==
  /\ workers[s].pc = "hold"
  /\ ~scanner[s].cancelled
  /\ ~GetClientByToken(clients, ClientOf(s))
  /\ workers' = [workers EXCEPT ![s] = SubmitFailed(@)]
  /\ op' = OpRec("SubmitUnauthorized", s, workers[s].batch, NULL, workers[s].attempt)
  /\ UNCHANGED <<aside, scanner, files, batches, nextBatchId, sessions, clients, feeder>>

\* POST /api/admin/discover-files, for one file of the upstream listing.
DiscoverFiles ==
  \E f \in Upstream \ DOMAIN files :
    /\ files' = UpsertDomainFile(files, f)
    /\ op' = OpRec("DiscoverFiles", NULL, NoBatch, NULL, f)
    /\ UNCHANGED <<aside, scanner, batches, nextBatchId, sessions, clients, feeder, workers>>

----------------------------------------------------------------------------
(* Feeder.                                                                 *)

\* Feeder.Run: pick the next file (promoting it to processing) and enter
\* processFile; with no file, sleep and poll again.
FeederPick ==
  /\ feeder.pc = "idle"
  /\ LET f == GetNextFileToProcess(files) IN
       /\ f # 0
       /\ files' = IF files[f].status = "pending"
                     THEN [files EXCEPT ![f].status = "processing"]
                     ELSE files
       /\ feeder' = [pc |-> "read", file |-> f, lineNum |-> 0,
                     skipToLine |-> files[f].processed_lines,
                     batchStart |-> 0, batchLen |-> 0]
       /\ op' = OpRec("FeederPick", NULL, NoBatch, files[f].status, f)
  /\ UNCHANGED <<aside, scanner, batches, nextBatchId, sessions, clients, workers>>

\* processFile: read lines until a batch is full or the stream ends.
ReadLines ==
  /\ feeder.pc = "read"
  /\ LET r == ScanLines(FileLines(feeder.file), feeder.lineNum, feeder.skipToLine, 0, 0) IN
       feeder' = [feeder EXCEPT !.pc = IF r.len > 0 THEN "wait" ELSE "mark",
                                !.lineNum = r.lineNum,
                                !.batchStart = r.batchStart,
                                !.batchLen = r.len]
  /\ op' = OpRec("ReadLines", NULL, NoBatch, NULL, feeder.file)
  /\ UNCHANGED <<aside, scanner, files, batches, nextBatchId, sessions, clients, workers>>

\* insertBatch: one poll of the pending count.
WaitForCapacity ==
  /\ feeder.pc = "wait"
  /\ GetPendingBatchCount(batches) < MaxPendingBatches
  /\ feeder' = [feeder EXCEPT !.pc = "insert"]
  /\ op' = OpRec("WaitForCapacity", NULL, NoBatch, NULL, GetPendingBatchCount(batches))
  /\ UNCHANGED <<aside, scanner, files, batches, nextBatchId, sessions, clients, workers>>

\* insertBatch: CreateBatchAndUpdateProgress, one transaction.
CreateBatchAndUpdateProgress ==
  /\ feeder.pc = "insert"
  /\ nextBatchId <= MaxBatchId
  /\ batches' = InsertBatch(batches, nextBatchId, feeder.file,
                            feeder.batchStart, feeder.lineNum)
  /\ files' = UpdateProgress(files, feeder.file, feeder.lineNum)
  /\ nextBatchId' = nextBatchId + 1
  /\ feeder' = [feeder EXCEPT
                  !.pc = IF feeder.lineNum = Len(FileLines(feeder.file))
                           THEN "mark" ELSE "read",
                  !.batchStart = 0, !.batchLen = 0]
  /\ op' = OpRec("CreateBatch", NULL, nextBatchId, NULL, feeder.file)
  /\ UNCHANGED <<aside, scanner, sessions, clients, workers>>

\* processFile at EOF: latch feeding_complete.
FeederMark ==
  /\ feeder.pc = "mark"
  /\ files' = MarkFeedingComplete(files, feeder.file)
  /\ feeder' = [feeder EXCEPT !.pc = "close"]
  /\ op' = OpRec("MarkFeedingComplete", NULL, NoBatch, NULL, feeder.file)
  /\ UNCHANGED <<aside, scanner, batches, nextBatchId, sessions, clients, workers>>

\* processFile at EOF: the opportunistic close, then back to Run's loop.
FeederClose ==
  /\ feeder.pc = "close"
  /\ files' = CheckAndMarkFileComplete(files, feeder.file)
  /\ feeder' = [pc |-> "idle", file |-> 0, lineNum |-> 0, skipToLine |-> 0,
                batchStart |-> 0, batchLen |-> 0]
  /\ op' = OpRec("FeederClose", NULL, NoBatch,
                 IF files' # files THEN "closed" ELSE NULL, feeder.file)
  /\ UNCHANGED <<aside, scanner, batches, nextBatchId, sessions, clients, workers>>

\* processFile returns an error (download, decompression, scan or store):
\* Run logs it and polls again; the file stays as it is.
FeederFail ==
  /\ feeder.pc \in {"read", "wait", "insert", "mark"}
  /\ feeder' = [pc |-> "idle", file |-> 0, lineNum |-> 0, skipToLine |-> 0,
                batchStart |-> 0, batchLen |-> 0]
  /\ op' = OpRec("FeederFail", NULL, NoBatch, NULL, feeder.file)
  /\ UNCHANGED <<aside, scanner, files, batches, nextBatchId, sessions, clients, workers>>

----------------------------------------------------------------------------
(* Scanner process: termination signals.                                   *)

\* cmd/scanner main: the goroutine waiting on the signal channel cancels the
\* work context on the first SIGINT/SIGTERM and ends; later signals find no
\* receiver.  Nothing in the process closes the shutdown channel.
Signal(s) ==
  /\ scanner[s].signals < 2
  /\ scanner' = [scanner EXCEPT ![s].signals = @ + 1, ![s].cancelled = TRUE]
  /\ op' = OpRec("Signal", s, NoBatch, NULL, scanner[s].signals + 1)
  /\ UNCHANGED <<aside, files, batches, nextBatchId, sessions, clients, feeder, workers>>

\* Worker.Run returning on ctx.Done(): at the top of the loop or in a wait
\* when it holds nothing; with a fetched batch, the lookups and SubmitBatch
\* fail on the cancelled context and the retry wait returns, so the batch is
\* left as it is.
WorkerExit(s) ==
  /\ workers[s].pc \in {"idle", "hold"}
  /\ scanner[s].cancelled
  /\ workers' = [workers EXCEPT ![s].pc = "exited"]
  /\ op' = OpRec("WorkerExit", s, workers[s].batch, workers[s].pc, 0)
  /\ UNCHANGED <<aside, scanner, files, batches, nextBatchId, sessions, clients, feeder>>

----------------------------------------------------------------------------
(* Worker.Run step by step, against a coordinator that may answer each     *)
(* request with any of its outcomes.  A goroutine parked in a select is     *)
(* woken by the first of its cases that becomes ready; a select entered     *)
(* with several cases ready takes any of them.                              *)

Pow2(n) == IF n <= 0 THEN 1 ELSE 2 ^ n

backoffDelay_Linear(n) ==
  IF n = 0 THEN 0
  ELSE LET delay == RetryDelay * n
       IN IF delay > MaxBackoff THEN MaxBackoff ELSE delay

\* backoffDelay: RetryDelay * 2^(errors-1), capped at MaxBackoff.
backoffDelay(n) ==
  IF n = 0 THEN 0
  ELSE LET delay == RetryDelay * Pow2(n - 1)
       IN IF delay > MaxBackoff THEN MaxBackoff ELSE delay

\* WorkerConfig.MaxBackoff: 5 minutes in DefaultWorkerConfig; Scanner.Run's
\* composite literal names BatchSize, SubfinderConfig, DNSConfig, RetryDelay
\* and EmptyQueueDelay only, which leaves MaxBackoff at its zero value.
ConfigMaxBackoff(config) == IF config = "Scanner.Run" THEN 0 ELSE MaxBackoff

\* backoffDelay of a worker, by its configuration.
WorkerBackoffDelay(r) ==
  IF r.config = "DefaultWorkerConfig"
    THEN backoffDelay(r.consecutiveErrors)
    ELSE IF r.consecutiveErrors = 0 THEN 0
    ELSE LET delay == RetryDelay * Pow2(r.consecutiveErrors - 1)
         IN IF delay > ConfigMaxBackoff(r.config)
              THEN ConfigMaxBackoff(r.config) ELSE delay

SelectCases_CtxOnly(pc) ==
  IF pc \in {"backoff", "wait", "retry"} THEN {"ctx", "timer"} ELSE {}

\* The cases of the select statement the worker waits in.
SelectCases(pc) ==
  IF pc \in {"backoff", "wait"} THEN {"shutdown", "ctx", "timer"}
  ELSE IF pc = "retry" THEN {"ctx", "timer"}
  ELSE {}

\* The cases that are ready now.
Ready(r) ==
  {c \in SelectCases(r.pc) :
     \/ c = "shutdown" /\ r.shutdown
     \/ c = "ctx" /\ r.cancelled
     \/ c = "timer" /\ r.timer = 0}

\* The case a parked (or just arriving) goroutine continues with.
Wakes(r) == IF r.woken = "none" /\ Ready(r) # {} THEN Ready(r) ELSE {r.woken}

SubmitFailure_GiveUp(r) ==
  [r EXCEPT !.pc = "top", !.batch = NoBatch, !.attempt = 0]

\* A failed SubmitBatch attempt: wait attempt * 5 s and try again, or after
\* the third attempt count an error and drop the results.
SubmitFailure(r) ==
  IF r.attempt < 3
    THEN [r EXCEPT !.pc = "retry", !.timer = r.attempt]
    ELSE [r EXCEPT !.pc = "top", !.batch = NoBatch, !.attempt = 0,
                   !.consecutiveErrors = Min(@ + 1, MaxErrors)]

\* Scanner.InitiateShutdown: close the shutdown channel (once).
InitiateShutdown ==
  /\ ~run.shutdown
  /\ \E w \in Wakes([run EXCEPT !.shutdown = TRUE]) :
       run' = [run EXCEPT !.shutdown = TRUE, !.woken = w]
  /\ op' = OpRec("InitiateShutdown", NULL, NoBatch, run.pc, 0)
  /\ UNCHANGED <<pipeline, pickers, dns, loc_records, now, parse>>

\* The work context is cancelled.
CancelWork ==
  /\ ~run.cancelled
  /\ \E w \in Wakes([run EXCEPT !.cancelled = TRUE]) :
       run' = [run EXCEPT !.cancelled = TRUE, !.woken = w]
  /\ op' = OpRec("CancelWork", NULL, NoBatch, run.pc, 0)
  /\ UNCHANGED <<pipeline, pickers, dns, loc_records, now, parse>>

\* Time passes for a parked worker; its timer may fire.
RunTick ==
  /\ run.pc \in {"backoff", "wait", "retry"}
  /\ run.woken = "none"
  /\ run.timer > 0
  /\ \E w \in Wakes([run EXCEPT !.timer = @ - 1]) :
       run' = [run EXCEPT !.timer = @ - 1, !.woken = w]
  /\ op' = OpRec("RunTick", NULL, NoBatch, run.pc, run.timer - 1)
  /\ UNCHANGED <<pipeline, pickers, dns, loc_records, now, parse>>

\* The top of the loop: leave on shutdown or cancellation, else back off
\* when there were errors, else go on to GetBatch.
RunTop ==
  /\ run.pc = "top"
  /\ IF run.shutdown \/ run.cancelled
       THEN run' = [run EXCEPT !.pc = "exited"]
       ELSE IF WorkerBackoffDelay(run) > 0
         THEN \E w \in Wakes([run EXCEPT !.pc = "backoff",
                                          !.timer = WorkerBackoffDelay(run)]) :
                run' = [run EXCEPT !.pc = "backoff", !.woken = w,
                                   !.timer = WorkerBackoffDelay(run)]
         ELSE run' = [run EXCEPT !.pc = "fetch"]
  /\ op' = OpRec("RunTop", NULL, NoBatch, run.pc, run.consecutiveErrors)
  /\ UNCHANGED <<pipeline, pickers, dns, loc_records, now, parse>>

\* The backoff wait ends: return on shutdown or cancellation, go on to
\* GetBatch when the delay has passed.
RunBackoff ==
  /\ run.pc = "backoff"
  /\ run.woken # "none"
  /\ run' = [run EXCEPT !.pc = IF run.woken = "timer" THEN "fetch" ELSE "exited",
                        !.woken = "none", !.timer = 0]
  /\ op' = OpRec("RunBackoff", NULL, NoBatch, run.woken, 0)
  /\ UNCHANGED <<pipeline, pickers, dns, loc_records, now, parse>>

\* GetBatch fails: count an error and loop.
GetBatchError ==
  /\ run.pc = "fetch"
  /\ run' = [run EXCEPT !.pc = "top",
                        !.consecutiveErrors = Min(@ + 1, MaxErrors)]
  /\ op' = OpRec("GetBatchError", NULL, NoBatch, NULL, 0)
  /\ UNCHANGED <<pipeline, pickers, dns, loc_records, now, parse>>

\* GetBatch answers with no domains: reset the errors and wait
\* EmptyQueueDelay times a jitter between 0.5 and 1.5.
GetBatchEmpty ==
  /\ run.pc = "fetch"
  /\ ~run.cancelled
  /\ \E d \in {x \in 1..(2 * EmptyQueueDelay) :
                  2 * x >= EmptyQueueDelay /\ 2 * x <= 3 * EmptyQueueDelay} :
       \E w \in Wakes([run EXCEPT !.pc = "wait", !.timer = d]) :
         run' = [run EXCEPT !.pc = "wait", !.timer = d, !.woken = w,
                            !.consecutiveErrors = 0]
  /\ op' = OpRec("GetBatchEmpty", NULL, NoBatch, NULL, 0)
  /\ UNCHANGED <<pipeline, pickers, dns, loc_records, now, parse>>

\* GetBatch answers with a batch: resolve it, then submit.
GetBatchOk ==
  /\ run.pc = "fetch"
  /\ ~run.cancelled
  /\ \E b \in 1..MaxBatchId :
       /\ run' = [run EXCEPT !.pc = "submit", !.batch = b, !.attempt = 1]
       /\ op' = OpRec("GetBatchOk", NULL, b, NULL, 0)
  /\ UNCHANGED <<pipeline, pickers, dns, loc_records, now, parse>>

\* The empty-queue wait ends.
RunEmptyWait ==
  /\ run.pc = "wait"
  /\ run.woken # "none"
  /\ run' = [run EXCEPT !.pc = IF run.woken = "timer" THEN "top" ELSE "exited",
                        !.woken = "none", !.timer = 0]
  /\ op' = OpRec("RunEmptyWait", NULL, NoBatch, run.woken, 0)
  /\ UNCHANGED <<pipeline, pickers, dns, loc_records, now, parse>>

\* SubmitBatch succeeds: reset the errors and loop.
SubmitBatchOk ==
  /\ run.pc = "submit"
  /\ ~run.cancelled
  /\ run' = [run EXCEPT !.pc = "top", !.batch = NoBatch, !.attempt = 0,
                        !.consecutiveErrors = 0]
  /\ op' = OpRec("SubmitBatchOk", NULL, run.batch, NULL, run.attempt)
  /\ UNCHANGED <<pipeline, pickers, dns, loc_records, now, parse>>

\* SubmitBatch fails (always so on a cancelled context).
SubmitBatchError ==
  /\ run.pc = "submit"
  /\ \E w \in Wakes(SubmitFailure(run)) :
       run' = [SubmitFailure(run) EXCEPT !.woken = w]
  /\ op' = OpRec("SubmitBatchError", NULL, run.batch, NULL, run.attempt)
  /\ UNCHANGED <<pipeline, pickers, dns, loc_records, now, parse>>

\* The wait between two submit attempts ends: return on cancellation
\* (the batch stays claimed), else try again.
RunRetry ==
  /\ run.pc = "retry"
  /\ run.woken # "none"
  /\ run' = IF run.woken = "timer"
              THEN [run EXCEPT !.pc = "submit", !.attempt = @ + 1,
                               !.woken = "none", !.timer = 0]
              ELSE [run EXCEPT !.pc = "exited", !.woken = "none", !.timer = 0]
  /\ op' = OpRec("RunRetry", NULL, run.batch, run.woken, run.attempt)
  /\ UNCHANGED <<pipeline, pickers, dns, loc_records, now, parse>>

----------------------------------------------------------------------------
\* One clock tick: every stored timestamp is one tick older.
Tick ==
  /\ sessions' = [s \in Sessions |-> Age(sessions[s], HeartbeatTimeout + 1)]
  /\ clients' = [c \in DOMAIN clients |->
       [clients[c] EXCEPT !.last_heartbeat = Age(@, HeartbeatTimeout + 1)]]
  /\ batches' = [b \in DOMAIN batches |->
       [batches[b] EXCEPT !.assigned_at = Age(@, BatchTimeout + 1)]]
  /\ op' = OpRec("Tick", NULL, NoBatch, NULL, 0)
  /\ UNCHANGED <<aside, scanner, files, nextBatchId, feeder, workers>>

\* Every step of the coordinator, the feeder and the workers that is not the
\* passing of time, an admin request or a failure of the feeder or transport.
Core ==
  \/ \E s \in Sessions : GetJobs(s)
  \/ \E s \in Sessions : ClaimBatch(s)
  \/ \E s \in Sessions : SubmitResults(s)
  \/ \E s \in Sessions : CompleteBatch(s)
  \/ \E s \in Sessions : CloseFile(s)
  \/ \E s \in Sessions : Heartbeat(s)
  \/ runOnce
  \/ FeederPick
  \/ ReadLines
  \/ WaitForCapacity
  \/ CreateBatchAndUpdateProgress
  \/ FeederMark
  \/ FeederClose

\* The pipeline with time passing: sessions die, the reaper reclaims.
Next ==
  \/ Core
  \/ FeederFail
  \/ Tick

Spec == Init /\ [][Next]_vars

\* The pipeline with the admin's reset-scan and every session fresh.
NextAdmin ==
  \/ Core
  \/ FeederFail
  \/ ResetScan

SpecAdmin == Init /\ [][NextAdmin]_vars

\* Several files: domain_files starts with some of the upstream files and
\* discovery adds the others while the feeder, which can fail, and one
\* scanner work through them; no session times out.
InitFiles ==
  /\ \E D \in (SUBSET Upstream) \ {{}} :
       files = [f \in D |->
         [status |-> "pending", processed_lines |-> 0, batches_created |-> 0,
          batches_completed |-> 0, feeding_complete |-> FALSE]]
  /\ batches = <<>>
  /\ nextBatchId = 1
  /\ sessions = [s \in Sessions |-> NoTime]
  /\ clients = [c \in Clients |-> [last_heartbeat |-> NoTime, session_id |-> NULL]]
  /\ scanner = [s \in Sessions |-> [signals |-> 0, cancelled |-> FALSE]]
  /\ run = RunInit
  /\ dns = DnsInit
  /\ loc_records = {}
  /\ now = 0
  /\ pickers = PickersInit
  /\ parse = ParseInit
  /\ feeder = [pc |-> "idle", file |-> 0, lineNum |-> 0, skipToLine |-> 0,
               batchStart |-> 0, batchLen |-> 0]
  /\ workers = [s \in Sessions |->
       [pc |-> "idle", batch |-> NoBatch, attempt |-> 0, file |-> 0]]
  /\ op = OpRec("init", NULL, NoBatch, NULL, 0)

NextFiles ==
  \/ DiscoverFiles
  \/ FeederPick
  \/ ReadLines
  \/ WaitForCapacity
  \/ CreateBatchAndUpdateProgress
  \/ FeederMark
  \/ FeederClose
  \/ FeederFail
  \/ GetJobs("s1")
  \/ ClaimBatch("s1")
  \/ SubmitResults("s1")
  \/ CompleteBatch("s1")
  \/ CloseFile("s1")

SpecFiles == InitFiles /\ [][NextFiles]_vars

\* Several files with the admin's reset-scan.
NextFilesAdmin ==
  \/ NextFiles
  \/ ResetScan

SpecFilesAdmin == InitFiles /\ [][NextFilesAdmin]_vars

\* The pipeline with time passing, a feeder that meets no error and scanner
\* s1 on a link that can fail its submit attempts.  The reaper runs on its ticker, the clock advances, and
\* each goroutine of a running process is scheduled again and again; failures
\* are never forced.
NextFair ==
  \/ Core
  \/ Tick
  \/ SubmitError("s1")

Fairness ==
  /\ WF_vars(runOnce)
  /\ WF_vars(Tick)
  /\ \A s \in Sessions : WF_vars(Heartbeat(s))
  /\ \A s \in Sessions : WF_vars(GetJobs(s))
  /\ \A s \in Sessions : WF_vars(ClaimBatch(s))
  /\ \A s \in Sessions : WF_vars(CompleteBatch(s))
  /\ \A s \in Sessions : WF_vars(CloseFile(s))

SpecFair == Init /\ [][NextFair]_vars /\ Fairness

\* The pipeline with time passing and no failure of the feeder or the
\* transport: besides the steps of Fairness, every worker that holds a batch
\* goes on to submit it and the feeder's loop keeps running.
NextLive ==
  \/ Core
  \/ Tick

FairnessLive ==
  /\ Fairness
  /\ \A s \in Sessions : WF_vars(SubmitResults(s))
  /\ WF_vars(FeederPick)
  /\ WF_vars(ReadLines)
  /\ WF_vars(WaitForCapacity)
  /\ WF_vars(CreateBatchAndUpdateProgress)
  /\ WF_vars(FeederMark)
  /\ WF_vars(FeederClose)

SpecLive == Init /\ [][NextLive]_vars /\ FairnessLive

\* One worker's loop with shutdown and cancellation arriving at any point.
\* POST /api/scanner/heartbeat from a process that holds client c's token and
\* sends the session id of another client's scanner.
ForeignHeartbeat(c, s) ==
  /\ c # ClientOf(s)
  /\ GetClientByToken(clients, c)
  /\ sessions' = UpsertSession(sessions, c, s)
  /\ clients' = UpdateHeartbeat(clients, c, s)
  /\ op' = OpRec("ForeignHeartbeat", s, NoBatch, c, 0)
  /\ UNCHANGED <<aside, scanner, files, batches, nextBatchId, feeder, workers>>

\* The pipeline with time passing and clients that may send each other's
\* session ids.
NextForeign ==
  \/ Core
  \/ Tick
  \/ \E c \in Clients, s \in Sessions : ForeignHeartbeat(c, s)

SpecForeign == Init /\ [][NextForeign]_vars

\* GetNextFileToProcess, first statement: the SELECT ... FOR UPDATE SKIP
\* LOCKED runs on the pool, outside a transaction, so its row lock ends with
\* the statement; the caller has the row as it read it.
PickSelect(p) ==
  /\ pickers[p].pc = "idle"
  /\ LET f == GetNextFileToProcess(files) IN
       /\ f # 0
       /\ pickers' = [pickers EXCEPT ![p] = [pc |-> "selected", file |-> f,
                                             status |-> files[f].status]]
       /\ op' = OpRec("PickSelect", p, NoBatch, files[f].status, f)
  /\ UNCHANGED <<pipeline, run, dns, loc_records, now, parse>>

\* GetNextFileToProcess, second statement and return: a row read as pending
\* is set to processing.
PickPromote(p) ==
  /\ pickers[p].pc = "selected"
  /\ files' = IF pickers[p].status = "pending"
                THEN [files EXCEPT ![pickers[p].file].status = "processing"]
                ELSE files
  /\ pickers' = [pickers EXCEPT ![p].pc = "returned", ![p].status = "processing"]
  /\ op' = OpRec("PickPromote", p, NoBatch, pickers[p].status, pickers[p].file)
  /\ UNCHANGED <<batches, nextBatchId, sessions, clients, feeder, workers, scanner,
                 run, dns, loc_records, now, parse>>

\* The caller is done with the file it was given and may call again.
PickDone(p) ==
  /\ pickers[p].pc = "returned"
  /\ pickers' = [pickers EXCEPT ![p] = [pc |-> "idle", file |-> 0, status |-> NULL]]
  /\ op' = OpRec("PickDone", p, NoBatch, NULL, pickers[p].file)
  /\ UNCHANGED <<pipeline, run, dns, loc_records, now, parse>>

\* Concurrent callers of GetNextFileToProcess while files are discovered and
\* the admin may reset the scan.
NextPick ==
  \/ \E p \in Pickers : PickSelect(p)
  \/ \E p \in Pickers : PickPromote(p)
  \/ \E p \in Pickers : PickDone(p)
  \/ DiscoverFiles
  \/ ResetScan

SpecPick == InitFiles /\ [][NextPick]_vars

NextWorker ==
  \/ InitiateShutdown
  \/ CancelWork
  \/ RunTick
  \/ RunTop
  \/ RunBackoff
  \/ GetBatchError
  \/ GetBatchEmpty
  \/ GetBatchOk
  \/ RunEmptyWait
  \/ SubmitBatchOk
  \/ SubmitBatchError
  \/ RunRetry

SpecWorker == Init /\ [][NextWorker]_vars

----------------------------------------------------------------------------
(* Scanner.Run: the heartbeat task and the workers it starts.              *)

HeartbeatCtxDone_OnShutdown(r) == r.shutdown \/ r.cancelled \/ r.returned

\* heartbeatCtx is a child of Run's ctx, cancelled by the deferred
\* cancelHeartbeat when Run returns.
HeartbeatCtxDone(r) == r.cancelled \/ r.returned

\* runHeartbeat, case <-ticker.C: send a heartbeat (an error is counted and
\* logged, the loop goes on).
HeartbeatSend ==
  /\ run.heartbeat = "running"
  /\ op' = OpRec("HeartbeatSend", NULL, NoBatch,
                 IF HeartbeatCtxDone(run) THEN "error" ELSE "sent", 0)
  /\ UNCHANGED <<pipeline, pickers, run, dns, loc_records, now, parse>>

\* runHeartbeat, case <-ctx.Done(): the task returns.
HeartbeatStop ==
  /\ run.heartbeat = "running"
  /\ HeartbeatCtxDone(run)
  /\ run' = [run EXCEPT !.heartbeat = "stopped"]
  /\ op' = OpRec("HeartbeatStop", NULL, NoBatch, NULL, 0)
  /\ UNCHANGED <<pipeline, pickers, dns, loc_records, now, parse>>

\* Another worker of the pool returns from Worker.Run, which it does only
\* on the shutdown channel or the cancelled context.
OtherWorkerExit ==
  /\ run.others > 0
  /\ run.shutdown \/ run.cancelled
  /\ run' = [run EXCEPT !.others = @ - 1]
  /\ op' = OpRec("OtherWorkerExit", NULL, NoBatch, NULL, run.others - 1)
  /\ UNCHANGED <<pipeline, pickers, dns, loc_records, now, parse>>

\* Scanner.Run: wg.Wait() returns when every worker has returned; Run
\* returns and its deferred cancelHeartbeat runs.
ScannerRunReturn ==
  /\ ~run.returned
  /\ run.pc = "exited"
  /\ run.others = 0
  /\ run' = [run EXCEPT !.returned = TRUE]
  /\ op' = OpRec("ScannerRunReturn", NULL, NoBatch, NULL, 0)
  /\ UNCHANGED <<pipeline, pickers, dns, loc_records, now, parse>>

InitRun ==
  /\ files = [f \in Files |->
       [status |-> "pending", processed_lines |-> 0, batches_created |-> 0,
        batches_completed |-> 0, feeding_complete |-> FALSE]]
  /\ batches = <<>>
  /\ nextBatchId = 1
  /\ sessions = [s \in Sessions |-> NoTime]
  /\ clients = [c \in Clients |-> [last_heartbeat |-> NoTime, session_id |-> NULL]]
  /\ scanner = [s \in Sessions |-> [signals |-> 0, cancelled |-> FALSE]]
  /\ run = ScannerRunInit
  /\ dns = DnsInit
  /\ loc_records = {}
  /\ now = 0
  /\ pickers = PickersInit
  /\ parse = ParseInit
  /\ feeder = [pc |-> "idle", file |-> 0, lineNum |-> 0, skipToLine |-> 0,
               batchStart |-> 0, batchLen |-> 0]
  /\ workers = [s \in Sessions |->
       [pc |-> "idle", batch |-> NoBatch, attempt |-> 0, file |-> 0]]
  /\ op = OpRec("init", NULL, NoBatch, NULL, 0)

\* The scanner as Scanner.Run starts it.  Its workers never enter the
\* backoff wait (see ConfigMaxBackoff), so that wait has no step here.
NextRun ==
  \/ InitiateShutdown
  \/ CancelWork
  \/ RunTick
  \/ RunTop
  \/ GetBatchError
  \/ GetBatchEmpty
  \/ GetBatchOk
  \/ RunEmptyWait
  \/ SubmitBatchOk
  \/ SubmitBatchError
  \/ RunRetry
  \/ HeartbeatSend
  \/ HeartbeatStop
  \/ OtherWorkerExit
  \/ ScannerRunReturn

SpecRun == InitRun /\ [][NextRun]_vars

----------------------------------------------------------------------------
\* DNSScanner: one worker's resolver pool and its LookupLOCBatch calls.
\* dns.g[i] is the position of the goroutine started for the i-th FQDN:
\*   "acquire"  in the select on the semaphore and ctx.Done()
\*   "resolver" holds a semaphore slot, in LookupLOC before <-resolverPool
\*   "lookup"   holds a slot and a resolver, in ExternalLookup
\*   "done"     returned (its result is recorded)

\* NewDNSScanner: the pool has one resolver per worker, 10 when Workers < 1.
poolSizeOf(w) == IF w < 1 THEN 10 ELSE w
poolSize == poolSizeOf(DNSWorkers)

SemFree_Unbounded(d) == TRUE

\* sem <- struct{}{} on a channel of capacity config.Workers can proceed.
SemFree(d) == d.sem < d.workers

InProgress(d) == {i \in 1..MaxFqdns : d.g[i] \in {"resolver", "lookup"}}

\* LookupLOCBatch is called with n FQDNs: a fresh semaphore, one goroutine each.
\* make(chan struct{}, n) panics at run time when n is negative.
LookupLOCBatch(n) ==
    /\ dns.pc = "idle"
    /\ dns' = IF dns.workers < 0
                THEN [dns EXCEPT !.pc = "panic"]
                ELSE [dns EXCEPT !.pc = "batch", !.sem = 0, !.results = 0,
                                 !.g = [i \in 1..MaxFqdns |->
                                          IF i <= n THEN "acquire" ELSE "none"]]
    /\ UNCHANGED <<pipeline, pickers, run, loc_records, now, parse, op>>

\* The context passed to LookupLOCBatch is cancelled.
DnsCtxDone ==
    /\ ~dns.ctxDone
    /\ dns' = [dns EXCEPT !.ctxDone = TRUE]
    /\ UNCHANGED <<pipeline, pickers, run, loc_records, now, parse, op>>

\* select case sem <- struct{}{}
AcquireSem(i) ==
    /\ dns.pc = "batch"
    /\ dns.g[i] = "acquire"
    /\ SemFree(dns)
    /\ dns' = [dns EXCEPT !.sem = @ + 1, !.g[i] = "resolver"]
    /\ UNCHANGED <<pipeline, pickers, run, loc_records, now, parse, op>>

\* select case <-ctx.Done(): the error is recorded, no lookup is made.
AcquireCtxDone(i) ==
    /\ dns.pc = "batch"
    /\ dns.g[i] = "acquire"
    /\ dns.ctxDone
    /\ dns' = [dns EXCEPT !.g[i] = "done", !.results = @ + 1]
    /\ UNCHANGED <<pipeline, pickers, run, loc_records, now, parse, op>>

\* getResolver: initPool once (it may fail part-way and latches initErr; its
\* send panics when the pool channel is closed), then receive from the pool,
\* blocking while it is empty.  A receive from the closed, drained channel
\* returns nil at once, and the lookup on the nil resolver panics.
getResolver(i) ==
    /\ dns.pc = "batch"
    /\ dns.g[i] = "resolver"
    /\ \/ /\ ~dns.inited /\ ~dns.closed
          /\ dns' = [dns EXCEPT !.inited = TRUE,
                                 !.created = poolSizeOf(dns.workers),
                                 !.pool = poolSizeOf(dns.workers) - 1,
                                 !.g[i] = "lookup"]
       \/ /\ ~dns.inited
          /\ \E k \in 0..(poolSizeOf(dns.workers) - 1) :
               /\ dns.closed => k = 0
               /\ dns' = [dns EXCEPT !.inited = TRUE, !.initErr = TRUE,
                                      !.created = k, !.pool = k,
                                      !.g[i] = "done", !.sem = @ - 1,
                                      !.results = @ + 1]
       \/ /\ ~dns.inited /\ dns.closed
          /\ dns' = [dns EXCEPT !.inited = TRUE, !.created = 1, !.pc = "panic"]
       \/ /\ dns.inited /\ dns.initErr
          /\ dns' = [dns EXCEPT !.g[i] = "done", !.sem = @ - 1,
                                 !.results = @ + 1]
       \/ /\ dns.inited /\ ~dns.initErr /\ ~dns.closed
          /\ dns.pool > 0
          /\ dns' = [dns EXCEPT !.pool = @ - 1, !.g[i] = "lookup"]
       \/ /\ dns.inited /\ ~dns.initErr /\ dns.closed
          /\ dns' = [dns EXCEPT !.pc = "panic"]
    /\ UNCHANGED <<pipeline, pickers, run, loc_records, now, parse, op>>

\* LookupLOC returns: the deferred returnResolver (the resolver is closed
\* when the pool is full; the send panics when the pool channel is closed),
\* the result is recorded, the deferred <-sem frees the slot.
LookupLOC(i) ==
    /\ dns.pc = "batch"
    /\ dns.g[i] = "lookup"
    /\ dns' = IF dns.closed
                THEN [dns EXCEPT !.pc = "panic"]
                ELSE [dns EXCEPT !.pool = IF @ < poolSizeOf(dns.workers)
                                            THEN @ + 1 ELSE @,
                                 !.freed = IF dns.pool < poolSizeOf(dns.workers)
                                             THEN @ ELSE @ + 1,
                                 !.sem = @ - 1, !.g[i] = "done",
                                 !.results = @ + 1]
    /\ UNCHANGED <<pipeline, pickers, run, loc_records, now, parse, op>>

\* wg.Wait() returns once every goroutine has returned.
LookupLOCBatchReturn ==
    /\ dns.pc = "batch"
    /\ \A i \in 1..MaxFqdns : dns.g[i] \in {"done", "none"}
    /\ dns' = [dns EXCEPT !.pc = "idle", !.g = [i \in 1..MaxFqdns |-> "none"]]
    /\ UNCHANGED <<pipeline, pickers, run, loc_records, now, parse, op>>

\* DNSScanner.Close: close the pool channel, then close every resolver
\* that is in the pool.
Close ==
    /\ dns.pc # "panic"
    /\ ~dns.closed
    /\ dns' = [dns EXCEPT !.closed = TRUE, !.freed = @ + dns.pool, !.pool = 0]
    /\ UNCHANGED <<pipeline, pickers, run, loc_records, now, parse, op>>

NextLookup ==
    \/ \E n \in 1..MaxFqdns : LookupLOCBatch(n)
    \/ DnsCtxDone
    \/ \E i \in 1..MaxFqdns : AcquireSem(i)
    \/ \E i \in 1..MaxFqdns : AcquireCtxDone(i)
    \/ \E i \in 1..MaxFqdns : getResolver(i)
    \/ \E i \in 1..MaxFqdns : LookupLOC(i)
    \/ LookupLOCBatchReturn

SpecLookup == Init /\ [][NextLookup]_vars

\* The Workers settings NewDNSScanner accepts: any integer.
WorkersSettings == (-1)..DNSWorkers

InitScanner ==
  /\ files = [f \in Files |->
       [status |-> "pending", processed_lines |-> 0, batches_created |-> 0,
        batches_completed |-> 0, feeding_complete |-> FALSE]]
  /\ batches = <<>>
  /\ nextBatchId = 1
  /\ sessions = [s \in Sessions |-> NoTime]
  /\ clients = [c \in Clients |-> [last_heartbeat |-> NoTime, session_id |-> NULL]]
  /\ scanner = [s \in Sessions |-> [signals |-> 0, cancelled |-> FALSE]]
  /\ run = RunInit
  /\ \E w \in WorkersSettings : dns = [DnsInit EXCEPT !.workers = w]
  /\ loc_records = {}
  /\ now = 0
  /\ pickers = PickersInit
  /\ parse = ParseInit
  /\ feeder = [pc |-> "idle", file |-> 0, lineNum |-> 0, skipToLine |-> 0,
               batchStart |-> 0, batchLen |-> 0]
  /\ workers = [s \in Sessions |->
       [pc |-> "idle", batch |-> NoBatch, attempt |-> 0, file |-> 0]]
  /\ op = OpRec("init", NULL, NoBatch, NULL, 0)

\* A DNSScanner with any accepted configuration, its lookups, and Close.
NextScanner ==
    \/ NextLookup
    \/ Close

SpecScanner == InitScanner /\ [][NextScanner]_vars

----------------------------------------------------------------------------
(* LOC record parsing.  A record text is modelled by its words: "1" and    *)
(* "2" are numbers, "2m" and "-1m" numbers with the metre suffix, "N" "S"  *)
(* "E" "W" hemispheres, "x" anything else.  Words are separated by single  *)
(* blanks, so each regexp group matches one word.  Latitude and longitude  *)
(* are kept in arc seconds (3600 * degrees), which keeps them integers.    *)

Numbers == {"1", "2"}
Value(w) == CASE w = "1" -> 1 [] w = "2" -> 2 [] w = "2m" -> 2 [] w = "-1m" -> -1
WordLen(w) == CASE w = "-1m" -> 3 [] w = "2m" -> 2 [] OTHER -> 1

\* The inputs: optional junk before the coordinates, coordinates that are
\* well-formed (either hemisphere) or lack the last hemisphere or have the
\* hemispheres swapped, then up to MaxTail words, with or without blanks
\* around the text.
CoordinateWords ==
    { <<d, "1", "2", ns, "2", "1", "1", ew>> :
        d \in Numbers, ns \in {"N", "S"}, ew \in {"E", "W"} }
      \cup { <<"1", "1", "2", "N", "2", "1", "1">>,
             <<"1", "1", "2", "E", "2", "1", "1", "N">> }
TailWords == UNION { [1..n -> {"1", "2m", "-1m", "x"}] : n \in 0..MaxTail }
Inputs ==
    { [lead |-> l, words |-> p \o c \o t, trail |-> r] :
        l \in BOOLEAN, r \in BOOLEAN, p \in {<<>>, <<"x">>},
        c \in CoordinateWords, t \in TailWords }

\* strings.TrimSpace
TrimSpace(raw) == [raw EXCEPT !.lead = FALSE, !.trail = FALSE]

\* (\d+)\s+(\d+)\s+([\d.]+)\s+([NS])\s+(\d+)\s+(\d+)\s+([\d.]+)\s+([EW])
\* matches the eight words from position i.
CoordMatch(ws, i) ==
    /\ i + 7 <= Len(ws)
    /\ \A k \in {0, 1, 2, 4, 5, 6} : ws[i + k] \in Numbers
    /\ ws[i + 3] \in {"N", "S"}
    /\ ws[i + 7] \in {"E", "W"}

\* deg + min/60 + sec/3600, negated for the hemisphere neg.
DMS(ws, i, neg) ==
    LET v == Value(ws[i]) * 3600 + Value(ws[i + 1]) * 60 + Value(ws[i + 2])
    IN IF ws[i + 3] = neg THEN -v ELSE v

\* ParseLOCRecord: the anchored locRegex on the trimmed text: coordinates,
\* an altitude with the m suffix, then size and the two precisions with or
\* without it (never negative).
ParseLOCRecord(raw) ==
    LET ws == TrimSpace(raw).words IN
    IF /\ ~TrimSpace(raw).lead /\ ~TrimSpace(raw).trail
       /\ Len(ws) = 12
       /\ CoordMatch(ws, 1)
       /\ ws[9] \in {"2m", "-1m"}
       /\ \A k \in 10..12 : ws[k] \in {"1", "2m"}
      THEN [done |-> TRUE, ok |-> TRUE, RawRecord |-> TrimSpace(raw),
            Latitude |-> DMS(ws, 1, "S"), Longitude |-> DMS(ws, 5, "W"),
            AltitudeM |-> Value(ws[9]), SizeM |-> Value(ws[10]),
            HorizPrecM |-> Value(ws[11]), VertPrecM |-> Value(ws[12])]
      ELSE [done |-> TRUE, ok |-> FALSE]

\* The character offset of word k in the trimmed text.
RECURSIVE Offset(_, _)
Offset(ws, k) == IF k = 1 THEN 0 ELSE Offset(ws, k - 1) + WordLen(ws[k - 1]) + 1

\* The rest of ParseLOCRecordLenient, after strict parsing failed: the first
\* match of the unanchored coordRegex; rest := raw[len(matches[0]):], i.e.
\* the words from the character offset equal to the length of the match (in
\* the inputs drawn no word straddles that offset); the (-?[\d.]+)m values
\* found there fill altitude, size and the precisions in this order, over
\* the defaults 0, 1, 10000, 10.
LenientFallback(raw) ==
    LET ws == TrimSpace(raw).words
        starts == {i \in 1..Len(ws) : CoordMatch(ws, i)}
    IN IF starts = {}
         THEN [done |-> TRUE, ok |-> FALSE]
         ELSE LET i == CHOOSE j \in starts : \A k \in starts : j <= k
                  matchLen == Offset(ws, i + 8) - 1 - Offset(ws, i)
                  rest == SelectSeq([k \in 1..Len(ws) |-> <<k, ws[k]>>],
                                    LAMBDA e : Offset(ws, e[1]) >= matchLen)
                  meterMatches == SelectSeq(rest, LAMBDA e : e[2] \in {"2m", "-1m"})
                  meter(n, default) == IF Len(meterMatches) >= n
                                         THEN Value(meterMatches[n][2]) ELSE default
              IN [done |-> TRUE, ok |-> TRUE, RawRecord |-> TrimSpace(raw),
                  Latitude |-> DMS(ws, i, "S"), Longitude |-> DMS(ws, i + 4, "W"),
                  AltitudeM |-> meter(1, 0), SizeM |-> meter(2, 1),
                  HorizPrecM |-> meter(3, 10000), VertPrecM |-> meter(4, 10)]

ParseLOCRecordLenient_FallbackOnly(raw) == LenientFallback(raw)

\* ParseLOCRecordLenient: the strict result when strict parsing succeeds.
ParseLOCRecordLenient(raw) ==
    IF ParseLOCRecord(raw).ok THEN ParseLOCRecord(raw) ELSE LenientFallback(raw)

InitParse ==
  /\ \E raw \in Inputs :
       parse = [raw |-> raw, strict |-> NotParsed, lenient |-> NotParsed]
  /\ files = [f \in Files |->
       [status |-> "pending", processed_lines |-> 0, batches_created |-> 0,
        batches_completed |-> 0, feeding_complete |-> FALSE]]
  /\ batches = <<>>
  /\ nextBatchId = 1
  /\ sessions = [s \in Sessions |-> NoTime]
  /\ clients = [c \in Clients |-> [last_heartbeat |-> NoTime, session_id |-> NULL]]
  /\ scanner = [s \in Sessions |-> [signals |-> 0, cancelled |-> FALSE]]
  /\ run = RunInit
  /\ dns = DnsInit
  /\ loc_records = {}
  /\ now = 0
  /\ pickers = PickersInit
  /\ feeder = [pc |-> "idle", file |-> 0, lineNum |-> 0, skipToLine |-> 0,
               batchStart |-> 0, batchLen |-> 0]
  /\ workers = [s \in Sessions |->
       [pc |-> "idle", batch |-> NoBatch, attempt |-> 0, file |-> 0]]
  /\ op = OpRec("init", NULL, NoBatch, NULL, 0)

\* The text is given to the strict parser.
ParseStrict ==
  /\ ~parse.strict.done
  /\ parse' = [parse EXCEPT !.strict = ParseLOCRecord(parse.raw)]
  /\ UNCHANGED <<pipeline, pickers, run, dns, loc_records, now, op>>

\* The text is given to the lenient parser.
ParseLenient ==
  /\ ~parse.lenient.done
  /\ parse' = [parse EXCEPT !.lenient = ParseLOCRecordLenient(parse.raw)]
  /\ UNCHANGED <<pipeline, pickers, run, dns, loc_records, now, op>>

NextParse ==
  \/ ParseStrict
  \/ ParseLenient

SpecParse == InitParse /\ [][NextParse]_vars

----------------------------------------------------------------------------
\* The coordinator's clock advances (NOW() of later statements is later).
Clock ==
  /\ now < MaxNow
  /\ now' = now + 1
  /\ op' = OpRec("Clock", NULL, NoBatch, NULL, 0)
  /\ UNCHANGED <<pipeline, pickers, run, dns, loc_records, parse>>

\* One scanner session working through the fed batches and submitting the LOC
\* records it found, while the clock advances.
NextRecords ==
  \/ GetJobs("s1")
  \/ ClaimBatch("s1")
  \/ SubmitResults("s1")
  \/ SubmitLOCRecords("s1")
  \/ CompleteBatch("s1")
  \/ CloseFile("s1")
  \/ FeederPick
  \/ ReadLines
  \/ WaitForCapacity
  \/ CreateBatchAndUpdateProgress
  \/ FeederMark
  \/ FeederClose
  \/ Clock

SpecRecords == Init /\ [][NextRecords]_vars

\* The pipeline with scanner processes that receive termination signals.
NextShutdown ==
  \/ Core
  \/ \E s \in Sessions : Signal(s)
  \/ \E s \in Sessions : WorkerExit(s)

SpecShutdown == Init /\ [][NextShutdown]_vars

\* The pipeline with time passing and an admin who deletes scanner clients.
NextClients ==
  \/ Core
  \/ Tick
  \/ \E c \in Clients : DeleteClient(c)
  \/ \E s \in Sessions : ClaimRejected(s)
  \/ \E s \in Sessions : SubmitUnauthorized(s)

SpecClients == Init /\ [][NextClients]_vars

----------------------------------------------------------------------------
(* Queue contract.                                                         *)

\* C1: concurrent ClaimBatch calls never return the same batch id.  Whenever
\* a claim commits and hands its batch to the worker, that row was pending,
\* becomes in_flight for the claimant's session, and no other open claim
\* holds the same id; a row that is in_flight is never handed out.
C1_ClaimedOnce ==
  [][\A s \in Sessions :
       (workers[s].pc = "claim" /\ workers'[s].pc = "hold") =>
         LET b == workers[s].batch IN
           /\ b \in DOMAIN batches
           /\ batches[b].status = "pending"
           /\ batches'[b].status = "in_flight"
           /\ batches'[b].session_id = s
           /\ \A t \in Sessions \ {s} :
                ~(workers[t].pc = "claim" /\ workers[t].batch = b)]_vars

\* A claim has just committed while another claim transaction is open.
C1_ConcurrentClaims ==
  /\ op.name = "ClaimBatch"
  /\ \E t \in Sessions \ {op.who} : workers[t].pc = "claim"

\* C2 (as stated): a row is deleted only by a completion and only while it
\* is in_flight, never while pending; it returns to pending only through a
\* reaper reclaim.
C2_DeletedOnlyInFlight ==
  [][\A b \in DOMAIN batches :
       /\ b \notin DOMAIN batches' =>
            /\ op'.name = "CompleteBatch" /\ op'.batch = b
            /\ batches[b].status = "in_flight"
       /\ (b \in DOMAIN batches' /\ batches[b].status = "in_flight"
           /\ batches'[b].status = "pending") => op'.name = "runOnce"]_vars

\* C2 (amended): a row is created pending under a fresh id, goes
\* pending -> in_flight only by the claim that holds its lock, goes
\* in_flight -> pending only by a reaper reclaim, and is deleted only by a
\* completion of its id, in whichever of the two statuses it then has.
C2_Lifecycle ==
  [][/\ \A b \in DOMAIN batches :
          /\ b \notin DOMAIN batches' =>
               (op'.name = "CompleteBatch" /\ op'.batch = b)
          /\ (b \in DOMAIN batches' /\ batches[b].status = "in_flight"
              /\ batches'[b].status = "pending") => op'.name = "runOnce"
          /\ (b \in DOMAIN batches' /\ batches[b].status = "pending"
              /\ batches'[b].status = "in_flight") =>
               (op'.name = "ClaimBatch" /\ op'.batch = b)
     /\ \A b \in DOMAIN batches' \ DOMAIN batches :
          b = nextBatchId /\ batches'[b].status = "pending"]_vars

\* A late submission has just deleted a row that a reclaim had made pending.
C2_DeletedWhilePending ==
  op.name = "CompleteBatch" /\ op.prev = "pending" /\ op.batch \notin DOMAIN batches

\* C3: when CompleteBatch commits, the batch row no longer exists and the
\* owning file's batches_completed is exactly one higher, in that one step;
\* no step removes a row without that increment.
C3_CompleteDeletesAndCounts ==
  [][/\ \A s \in Sessions :
          (workers[s].pc = "complete" /\ workers'[s].pc = "close") =>
            /\ workers[s].batch \notin DOMAIN batches'
            /\ files'[workers[s].file].batches_completed
                 = files[workers[s].file].batches_completed + 1
     /\ \A b \in DOMAIN batches :
          b \notin DOMAIN batches' =>
            files'[batches[b].file_id].batches_completed
              = files[batches[b].file_id].batches_completed + 1]_vars

\* CompleteBatch has just committed the delete of an existing row.
C3_Completed ==
  /\ op.name = "CompleteBatch"
  /\ op.n = 1
  /\ op.batch \notin DOMAIN batches
  /\ \E f \in Files : files[f].batches_completed > 0

\* C4: for every file, batches_created - batches_completed is at least the
\* number of scan_batches rows of the file.
C4_CountersCoverRows ==
  \A f \in Files :
    files[f].batches_created - files[f].batches_completed
      >= Cardinality({b \in DOMAIN batches : batches[b].file_id = f})

\* C5: for every file, batches_completed <= batches_created.
C5_CompletedAtMostCreated ==
  \A f \in Files : files[f].batches_completed <= files[f].batches_created

\* C6 (as stated): a file is complete if and only if feeding_complete holds
\* and batches_completed = batches_created, in every state.
C6_CompleteIff ==
  \A f \in Files :
    (files[f].status = "complete") <=>
      (files[f].feeding_complete
       /\ files[f].batches_completed = files[f].batches_created)

\* C6 (amended): a complete file has feeding_complete, and a file becomes
\* complete only in a step that finds it processing with feeding_complete
\* and batches_completed = batches_created.
C6_CompleteOnlyWhenDrained ==
  /\ [](\A f \in Files : files[f].status = "complete" => files[f].feeding_complete)
  /\ [][\A f \in Files :
          (files[f].status # "complete" /\ files'[f].status = "complete") =>
            /\ files[f].feeding_complete
            /\ files[f].batches_completed = files[f].batches_created
            /\ files[f].status = "processing"]_vars

\* A close check has just marked a file complete.
C6_Closed ==
  /\ op.name \in {"CloseFile", "FeederClose"}
  /\ \E f \in Files : files[f].status = "complete"

----------------------------------------------------------------------------
(* Reaper and lost work.                                                   *)

C8_AliveSessionKeepsBatches ==
  [][op'.name = "runOnce" =>
       \A b \in DOMAIN batches :
         (batches[b].status = "in_flight"
          /\ batches[b].session_id \in Sessions
          /\ ~DeadSession(sessions, batches[b].session_id)) =>
           (b \in DOMAIN batches' /\ batches'[b] = batches[b])]_vars

\* A reaper tick has just run over a batch assigned longer ago than
\* BatchTimeout whose session is still within HeartbeatTimeout.
C8_SlowButAlive ==
  /\ op.name = "runOnce"
  /\ \E b \in DOMAIN batches :
       /\ batches[b].status = "in_flight"
       /\ batches[b].assigned_at > BatchTimeout
       /\ batches[b].session_id \in Sessions
       /\ ~DeadSession(sessions, batches[b].session_id)

\* C9: once all 3 submit attempts for a claimed batch have failed and the
\* worker has moved on, leaving the batch in_flight for its session, the
\* batch eventually is pending again (or gone), also while the scanner's
\* heartbeat keeps the session fresh.
C9_LostBatchReclaimed ==
  \A b \in 1..MaxBatchId :
    (/\ op.name = "SubmitLost"
     /\ op.batch = b
     /\ b \in DOMAIN batches
     /\ batches[b].status = "in_flight"
     /\ batches[b].session_id = op.who)
      ~> (b \notin DOMAIN batches \/ batches[b].status = "pending")

\* C10: a submission from a session whose heartbeat has timed out, for a
\* batch that is no longer assigned to it, is accepted when the row still
\* exists (the row is deleted and batches_completed goes up by one), and is
\* answered as a success without any counter change when the row is gone.
C10_LateSubmission ==
  [][\A s \in Sessions :
       LET b == workers[s].batch IN
         /\ (/\ workers[s].pc = "hold"
             /\ workers'[s] # workers[s]
             /\ DeadSession(sessions, s)
             /\ (b \notin DOMAIN batches \/ batches[b].session_id # s)) =>
              IF b \in DOMAIN batches
                THEN workers'[s].pc = "complete"
                ELSE /\ op'.name # "SubmitRejected"
                     /\ workers'[s].pc = "idle"
                     /\ files' = files
         /\ (/\ workers[s].pc = "complete"
             /\ workers'[s].pc = "close"
             /\ DeadSession(sessions, s)
             /\ b \in DOMAIN batches
             /\ batches[b].session_id # s) =>
              /\ b \notin DOMAIN batches'
              /\ files'[workers[s].file].batches_completed
                   = files[workers[s].file].batches_completed + 1]_vars

----------------------------------------------------------------------------
(* Scenarios and the feeder.                                               *)

\* C11: while scanner A sits halted on a batch it claimed and never
\* submitted, the completion by scanner B, which claimed the same id after
\* the reaper's reclaim, finds the row, deletes it and raises the file's
\* batches_completed by exactly one; no completion of that id counts
\* without deleting the row.
C11_CrashThenReassign ==
  [][\A a \in Sessions : \A s \in Sessions \ {a} :
       (/\ workers[a].pc = "hold"
        /\ workers'[a] = workers[a]
        /\ DeadSession(sessions, a)
        /\ workers[s].pc = "complete"
        /\ workers'[s].pc = "close"
        /\ workers[s].batch = workers[a].batch
        /\ (workers[s].batch \in DOMAIN batches
              => batches[workers[s].batch].session_id = s)) =>
         LET b == workers[s].batch IN
           /\ b \in DOMAIN batches
           /\ batches[b].status = "in_flight"
           /\ b \notin DOMAIN batches'
           /\ files'[workers[s].file].batches_completed
                = files[workers[s].file].batches_completed + 1]_vars

\* B has just completed the batch that A, whose session is dead, still holds.
C11_ReassignedCompleted ==
  /\ op.name = "CompleteBatch"
  /\ op.n = 1
  /\ \E a \in Sessions \ {op.who} :
       /\ workers[a].pc = "hold"
       /\ workers[a].batch = op.batch
       /\ workers[a].attempt = 1
       /\ DeadSession(sessions, a)

\* C12 (as stated): the first batch a restarted feeder creates for a file
\* whose committed batches end at line K starts at line K + 1.
C12_ResumeAtNextLine ==
  [][(/\ op'.name = "CreateBatch"
      /\ feeder.skipToLine > 0
      /\ files[feeder.file].processed_lines = feeder.skipToLine) =>
        batches'[nextBatchId].line_start = feeder.skipToLine + 1]_vars

\* C12 (amended): every batch the feeder creates for a file whose committed
\* batches end at line K starts after line K, at the first line after K that
\* holds a domain name, and ends at or after its start.
C12_ResumeAfterCommitted ==
  [][op'.name = "CreateBatch" =>
       LET K == files[feeder.file].processed_lines
           lines == FileLines(feeder.file)
           new == batches'[nextBatchId] IN
         /\ new.line_start > K
         /\ new.line_start <= new.line_end
         /\ lines[new.line_start]
         /\ \A n \in (K + 1)..(new.line_start - 1) : ~lines[n]
         /\ files'[feeder.file].processed_lines = new.line_end]_vars

\* A feeder restarted at line K > 0 has just created its first batch, and the
\* line directly after K held no domain name.
C12_ResumedPastBlank ==
  /\ op.name = "CreateBatch"
  /\ feeder.skipToLine > 0
  /\ op.batch \in DOMAIN batches
  /\ batches[op.batch].line_start > feeder.skipToLine + 1
  /\ \A b \in DOMAIN batches : b < op.batch => batches[b].line_end <= feeder.skipToLine

C17_FedFileCompletes ==
  \A f \in Files :
    ((feeder.pc = "mark" /\ feeder.file = f) \/ files[f].feeding_complete)
      ~> (files[f].status = "complete")

\* C18: in every state every in_flight batch has assigned_at and session_id
\* set, and every pending batch has assigned_at, scanner_id and session_id
\* all null - across claims, both reaper reclaim paths and the deletion of
\* the scanner client that owns a batch.
C18_OwnershipFields ==
  \A b \in DOMAIN batches :
    /\ batches[b].status = "in_flight" =>
         batches[b].assigned_at # NoTime /\ batches[b].session_id # NULL
    /\ batches[b].status = "pending" =>
         /\ batches[b].assigned_at = NoTime
         /\ batches[b].scanner_id = NULL
         /\ batches[b].session_id = NULL

\* The owning client of an in_flight batch was just deleted: the batch keeps
\* its session and its assignment time and has lost its scanner_id.
C18_OwnerDeleted ==
  /\ op.name = "DeleteClient"
  /\ \E b \in DOMAIN batches :
       /\ batches[b].status = "in_flight"
       /\ batches[b].scanner_id = NULL
       /\ batches[b].session_id # NULL
       /\ ClientOf(batches[b].session_id) = op.who

\* C19: CheckAndMarkFileComplete is idempotent and race-safe.  A complete
\* file stays complete, so it is closed (and completed_at written) at most
\* once; a call by a submit handler or by the feeder on a file that is
\* processing, fully fed and drained sets its status to complete, touches
\* nothing else and reports the close; a call on any other file changes
\* nothing and reports nothing.
C19_CloseOnce ==
  [][\A f \in DOMAIN files :
       /\ files[f].status = "complete" => files'[f].status = "complete"
       /\ (\/ op'.name = "FeederClose" /\ feeder.file = f
           \/ op'.name = "CloseFile" /\ workers[op'.who].file = f)
          => IF /\ files[f].feeding_complete
                /\ files[f].batches_created = files[f].batches_completed
                /\ files[f].status = "processing"
               THEN /\ files' = [files EXCEPT ![f].status = "complete"]
                    /\ op'.prev = "closed"
               ELSE /\ files' = files
                    /\ op'.prev = NULL]_vars

\* The feeder's own check came second: a submit handler had already closed
\* the file, and the feeder's call changed nothing.
C19_LostTheRace ==
  /\ op.name = "FeederClose"
  /\ op.prev = NULL
  /\ files[op.n].status = "complete"

\* C20: graceful shutdown.  After a first termination signal the work
\* context of the scanner process is not cancelled, and a worker that holds
\* a claimed batch does not exit before it has submitted it; only a second
\* signal (or the end of the grace period) cancels the work.
C20_GracefulShutdown ==
  [][\A s \in Sessions :
       /\ (scanner'[s].cancelled /\ ~scanner[s].cancelled)
            => scanner'[s].signals >= 2
       /\ (workers'[s].pc = "exited" /\ workers[s].pc = "hold")
            => scanner[s].signals >= 2]_vars

\* C21: a worker parked in the empty-queue wait or in the backoff wait when
\* the shutdown channel closes is woken by it and returns: it issues no
\* further claim request and holds no batch when it leaves.
C21_ShutdownWakesSleeper ==
  [][/\ (/\ run.pc \in {"wait", "backoff"}
         /\ run.woken = "none"
         /\ ~run.shutdown /\ run'.shutdown) => run'.woken = "shutdown"
     /\ (run.pc \in {"wait", "backoff"} /\ run.woken = "shutdown")
          => /\ run'.pc \in {run.pc, "exited"}
             /\ run.batch = NoBatch /\ run'.batch = NoBatch
     /\ run.pc = "exited" => run'.pc = "exited"]_vars

\* The worker has just returned from the backoff wait because the shutdown
\* channel closed while it slept there.
C21_LeftBackoffOnShutdown ==
  /\ op.name = "RunBackoff"
  /\ op.prev = "shutdown"
  /\ run.pc = "exited"
  /\ ~run.cancelled

\* C22: before a claim a worker with consecutive_errors = n >= 1 waits
\* exactly min(RetryDelay * 2^(n-1), MaxBackoff), and does not wait when
\* n = 0; the delay is non-decreasing in n and never exceeds MaxBackoff.
C22_BackoffDelay ==
  [][/\ (run.pc = "top" /\ run'.pc = "backoff")
          => /\ run.consecutiveErrors >= 1
             /\ run'.timer = Min(RetryDelay * Pow2(run.consecutiveErrors - 1),
                                 MaxBackoff)
     /\ (run.pc = "top" /\ run'.pc = "fetch")
          => \/ run.consecutiveErrors = 0
             \/ Min(RetryDelay * Pow2(run.consecutiveErrors - 1), MaxBackoff) = 0
     /\ (run.pc = "backoff" /\ run'.pc = "fetch")
          => run.woken = "timer" /\ run.timer = 0
     /\ (run.pc = "backoff" /\ run'.pc = "backoff" /\ run'.timer # run.timer)
          => run'.timer = run.timer - 1
     /\ \A n \in 0..(MaxErrors - 1) :
          /\ backoffDelay(n) <= backoffDelay(n + 1)
          /\ backoffDelay(n + 1) <= MaxBackoff
          /\ backoffDelay(0) = 0]_vars

\* The worker starts a backoff wait that the cap has shortened.
C22_CappedDelay ==
  /\ op.name = "RunTop"
  /\ run.pc = "backoff"
  /\ run.timer = MaxBackoff
  /\ RetryDelay * Pow2(run.consecutiveErrors - 1) > MaxBackoff

\* C23: within one worker the submission for a claimed batch (a success, or
\* the third failed attempt) comes before the worker's next claim request:
\* a claim request is issued only while the worker holds no batch, and a
\* held batch is given up only by a successful submit or a third failure.
C23_SubmitBeforeNextClaim ==
  [][/\ (run'.pc = "fetch" /\ run.pc # "fetch")
          => run.batch = NoBatch /\ run'.batch = NoBatch
     /\ (run.batch = NoBatch /\ run'.batch # NoBatch) => run.pc = "fetch"
     /\ (run.batch # NoBatch /\ run'.batch # run.batch)
          => /\ run'.batch = NoBatch
             /\ run.pc = "submit"
             /\ \/ op'.name = "SubmitBatchOk"
                \/ op'.name = "SubmitBatchError" /\ run.attempt = 3]_vars

\* All three submit attempts for a batch failed; the worker is back at the
\* top of its loop without a batch.
C23_LostThenFree ==
  /\ op.name = "SubmitBatchError"
  /\ op.n = 3
  /\ run.pc = "top"
  /\ run.batch = NoBatch


\* C24: while LookupLOCBatch resolves a batch, the goroutines that are past
\* the semaphore (waiting for or holding a resolver) never number more than
\* DNSWorkers and hold exactly the taken slots; a goroutine enters a lookup
\* only when a slot was free, and starts its query only with a resolver taken
\* from a non-empty pool; resolvers out of the pool never exceed its size.
C24_BoundedLookups ==
    [][ /\ Cardinality(InProgress(dns)) <= DNSWorkers
        /\ Cardinality(InProgress(dns)) = dns.sem
        /\ Cardinality(InProgress(dns')) <= DNSWorkers
        /\ \A i \in 1..MaxFqdns :
              /\ (dns.g[i] = "acquire" /\ dns'.g[i] = "resolver")
                    => Cardinality(InProgress(dns)) < DNSWorkers
              /\ (dns.g[i] = "resolver" /\ dns'.g[i] = "lookup")
                    => \/ ~dns.inited
                       \/ dns.pool > 0 /\ dns'.pool = dns.pool - 1
        /\ Cardinality({i \in 1..MaxFqdns : dns'.g[i] = "lookup"})
             + dns'.pool <= poolSize ]_vars

\* C24 witness: every slot is taken and another goroutine of the same batch is
\* still waiting for one.
C24_LookupQueued ==
    /\ Cardinality(InProgress(dns)) = DNSWorkers
    /\ \E i \in 1..MaxFqdns : dns.g[i] = "acquire"
    /\ \E i \in 1..MaxFqdns : dns.g[i] = "lookup"
    /\ ~dns.ctxDone

\* The rows of a table for one fqdn, and whether a step is a submission.
RowsOf(rows, f) == {r \in rows : r.fqdn = f}
IsSubmission(o) == o.name \in {"SubmitResults", "SubmitRejected"}

\* C25: every fqdn has at most one loc_records row and a row never goes away;
\* a submission whose record for the fqdn is stored leaves the row with
\* last_seen_at = the time of this submission and first_seen_at = the time of
\* the first stored one (kept from the existing row); a submission whose
\* records for the fqdn are all rejected, and every other step, leave the
\* row as it was.
C25_UpsertIdempotent ==
    [][ \A f \in FQDNS :
          /\ Cardinality(RowsOf(loc_records', f)) <= 1
          /\ RowsOf(loc_records, f) # {} => RowsOf(loc_records', f) # {}
          /\ IF /\ IsSubmission(op')
                /\ \E i \in DOMAIN op'.recs :
                     /\ op'.recs[i].fqdn = f
                     /\ op'.recs[i].latitude \in -90..90
                     /\ op'.recs[i].longitude \in -180..180
               THEN \E r \in RowsOf(loc_records', f) :
                      /\ r.last_seen_at = now
                      /\ r.first_seen_at =
                           IF RowsOf(loc_records, f) = {} THEN now
                           ELSE (CHOOSE o \in RowsOf(loc_records, f) : TRUE).first_seen_at
               ELSE RowsOf(loc_records', f) = RowsOf(loc_records, f) ]_vars

\* C25 as stated: every submission that contains the fqdn leaves one row
\* for it whose last_seen_at is the time of that submission (and whose
\* first_seen_at is that time too when there was no row before).
C25_EverySubmissionSeen ==
    [][ \A f \in FQDNS :
          (/\ IsSubmission(op')
           /\ \E i \in DOMAIN op'.recs : op'.recs[i].fqdn = f)
            => /\ Cardinality(RowsOf(loc_records', f)) = 1
               /\ \A r \in RowsOf(loc_records', f) :
                    /\ r.last_seen_at = now
                    /\ RowsOf(loc_records, f) = {} => r.first_seen_at = now ]_vars

\* C25 witness: an fqdn stored by an earlier submission has just been
\* submitted again: one row, first seen then, last seen now.
C25_Rediscovered ==
    /\ op.name = "SubmitResults"
    /\ \E f \in FQDNS :
         /\ \E i \in DOMAIN op.recs : op.recs[i].fqdn = f
         /\ \E r \in loc_records :
              r.fqdn = f /\ r.first_seen_at < r.last_seen_at /\ r.last_seen_at = now

\* C26: no row ever has a latitude outside [-90, 90] or a longitude outside
\* [-180, 180]; in a submission, a record with such coordinates leaves the
\* fqdn's row as it was (unless a valid record of the same submission stores
\* it), every valid record is in the table afterwards (the last one per fqdn
\* with its data, seen now), the handler goes on to complete the batch when
\* the batch row exists, and `accepted` is the number of valid records.
C26_InvalidCoordinatesSkipped ==
    [][ /\ \A r \in loc_records' :
              r.latitude \in -90..90 /\ r.longitude \in -180..180
        /\ IsSubmission(op') =>
             LET recs == op'.recs
                 ok(i) == /\ recs[i].latitude \in -90..90
                          /\ recs[i].longitude \in -180..180
             IN /\ \A i \in DOMAIN recs :
                     IF ok(i)
                       THEN \/ \E j \in DOMAIN recs :
                                 j > i /\ ok(j) /\ recs[j].fqdn = recs[i].fqdn
                            \/ \E r \in loc_records' :
                                 /\ r.fqdn = recs[i].fqdn
                                 /\ r.raw_record = recs[i].raw_record
                                 /\ r.latitude = recs[i].latitude
                                 /\ r.longitude = recs[i].longitude
                                 /\ r.altitude_m = recs[i].altitude_m
                                 /\ r.last_seen_at = now
                       ELSE \/ \E j \in DOMAIN recs :
                                 ok(j) /\ recs[j].fqdn = recs[i].fqdn
                            \/ RowsOf(loc_records', recs[i].fqdn)
                                 = RowsOf(loc_records, recs[i].fqdn)
                /\ op'.name = "SubmitResults"
                     => /\ op'.n = Cardinality({i \in DOMAIN recs : ok(i)})
                        /\ workers'[op'.who].pc = "complete"
                        /\ workers'[op'.who].batch = op'.batch
                /\ (workers[op'.who].batch \in DOMAIN batches)
                     => op'.name = "SubmitResults" ]_vars

\* C26 witness: a submission with one valid and one invalid record was
\* accepted with accepted = 1, the valid record is stored, the fqdn of the
\* invalid one has no row, and the batch is about to be completed.
C26_RejectedBesideStored ==
    /\ op.name = "SubmitResults"
    /\ Len(op.recs) = 2
    /\ op.n = 1
    /\ \E i, j \in DOMAIN op.recs :
         /\ op.recs[i].latitude = 91 \/ op.recs[i].longitude = -181
         /\ op.recs[j].fqdn # op.recs[i].fqdn
         /\ RowsOf(loc_records, op.recs[i].fqdn) = {}
         /\ RowsOf(loc_records, op.recs[j].fqdn) # {}
    /\ workers[op.who].pc = "complete"

C28_ResumeCursor ==
    [][ \A f \in DOMAIN files :
          /\ f \in DOMAIN files'
          /\ IF op'.name = "CreateBatch" /\ op'.n = f
               THEN /\ files'[f].processed_lines = batches'[op'.batch].line_end
                    /\ batches'[op'.batch].file_id = f
                    /\ files'[f].processed_lines > files[f].processed_lines
               ELSE IF op'.name = "ResetScan"
                 THEN files'[f].processed_lines = 0
                 ELSE files'[f].processed_lines = files[f].processed_lines ]_vars

\* C28 as stated: no step makes processed_lines smaller.
C28_NeverDecreases ==
    [][ \A f \in DOMAIN files :
          files'[f].processed_lines >= files[f].processed_lines ]_vars

\* C28 witness: a feeder that resumed behind a committed batch has just
\* committed the next one, and the cursor moved on to its line_end.
C28_CursorAdvanced ==
    /\ op.name = "CreateBatch"
    /\ feeder.skipToLine > 0
    /\ files[op.n].processed_lines = batches[op.batch].line_end
    /\ files[op.n].processed_lines > feeder.skipToLine

\* The lines of file f from a to b that hold a domain name.
NamesIn(f, a, b) == {n \in a..b : n \in DOMAIN FileLines(f) /\ FileLines(f)[n]}

\* C29: every batch the feeder commits has line_start <= line_end, begins
\* and ends on a line holding a name, and holds the names of its line range,
\* at least 1 and at most BatchSize of them (as many as the feeder had
\* buffered); a batch with fewer than BatchSize names is committed only at
\* the end of the file, after which the pass creates no further batch.
C29_BatchSizes ==
    [][ op'.name = "CreateBatch" =>
          LET b == batches'[op'.batch]
              names == NamesIn(b.file_id, b.line_start, b.line_end)
          IN /\ b.file_id = feeder.file
             /\ b.line_start >= 1
             /\ b.line_start <= b.line_end
             /\ b.line_start \in names
             /\ Cardinality(names) = feeder.batchLen
             /\ Cardinality(names) >= 1
             /\ Cardinality(names) <= BatchSize
             /\ Cardinality(names) < BatchSize
                  => /\ b.line_end = Len(FileLines(b.file_id))
                     /\ feeder'.pc = "mark" ]_vars

\* C29 witness: the final batch of a pass has just been committed with
\* fewer names than BatchSize, behind lines that earlier batches covered.
C29_FinalPartialBatch ==
    /\ op.name = "CreateBatch"
    /\ op.batch \in DOMAIN batches
    /\ Cardinality(NamesIn(batches[op.batch].file_id, batches[op.batch].line_start,
                           batches[op.batch].line_end)) < BatchSize
    /\ batches[op.batch].line_start > 1
    /\ feeder.pc = "mark"

\* C30: on every input that the strict parser accepts the lenient parser
\* returns the same record (all fields, the raw text included); the two
\* results differ only on inputs that the strict parser rejects.
C30_LenientRefinesStrict ==
    (parse.strict.done /\ parse.lenient.done)
      => /\ parse.strict.ok => parse.lenient = parse.strict
         /\ parse.lenient # parse.strict => ~parse.strict.ok

\* C30 witness: both parsers have run on a text with blanks around it that
\* the strict parser accepts and whose size has no m suffix, which the
\* lenient extraction on its own would have read differently.
C30_AcceptedByBoth ==
    /\ parse.strict.done /\ parse.lenient.done
    /\ parse.strict.ok
    /\ parse.raw.lead /\ parse.raw.trail
    /\ parse.raw.words[10] = "1"
    /\ parse.lenient.SizeM = 1
    /\ parse.lenient.HorizPrecM = 2
    /\ LenientFallback(parse.raw).HorizPrecM = 10000

\* C31: every scanner request upserts the caller's session: after the
\* store step of a heartbeat or of a submission the session named in the
\* request has last_heartbeat = now, and a claim request leaves some session
\* with last_heartbeat = now.
C31_EveryRequestUpserts ==
    [][ /\ op'.name \in {"Heartbeat", "SubmitResults", "SubmitRejected"}
             => sessions'[op'.who] = 0
        /\ op'.name = "GetJobs" => \E s \in Sessions : sessions'[s] = 0 ]_vars

\* C32: a heartbeat authenticated as another client leaves the session's
\* last_heartbeat as it was (a dead session stays dead).
C32_OwnClientOnly ==
    [][ op'.name = "ForeignHeartbeat"
          => /\ sessions'[op'.who] = sessions[op'.who]
             /\ DeadSession(sessions, op'.who) => DeadSession(sessions', op'.who) ]_vars

\* C33: when GetBatch has answered with a batch, the worker's
\* consecutiveErrors is 0, and stays 0 while it holds the batch, so that a
\* failure that follows is counted as the first.
C33_ClaimResetsErrors ==
    [][ /\ op'.name = "GetBatchOk" => run'.consecutiveErrors = 0
        /\ run'.batch # NoBatch => run'.consecutiveErrors = 0
        /\ (run.batch # NoBatch /\ run'.batch = NoBatch /\ run'.pc = "top")
              => run'.consecutiveErrors <= 1 ]_vars

\* C34: of the completions of one batch id only the one that deletes the
\* row counts: a CompleteBatch transaction adds to batches_completed of the
\* owning file exactly as many as the rows it deleted (1 for the first, 0
\* for a second one that finds the row gone), and nothing on other files.
C34_OneCompletionCounts ==
    [][ op'.name = "CompleteBatch" =>
          \A f \in DOMAIN files :
             files'[f].batches_completed - files[f].batches_completed
               = IF f = workers[op'.who].file THEN op'.n ELSE 0 ]_vars

\* C35: two calls of GetNextFileToProcess that overlap (each has run its
\* SELECT and its caller is not yet done with the file) never hold the same
\* file.
C35_ExclusivePick ==
    \A p, q \in Pickers :
      (p # q /\ pickers[p].pc # "idle" /\ pickers[q].pc # "idle")
        => pickers[p].file # pickers[q].file

\* C36: without a reset, across feeder failures and restarts, every line
\* holding a name is placed in exactly one batch.  Each batch the feeder
\* commits starts behind the file's cursor, holds every name between the
\* cursor and its line_end, and moves the cursor to its line_end; when the
\* feeder latches feeding_complete no name lies behind the cursor; and the
\* [line_start, line_end] ranges of a file's batches are pairwise disjoint.
C36_EveryLineOnce ==
    [][ /\ op'.name = "CreateBatch" =>
             LET b == batches'[op'.batch]
                 f == b.file_id
             IN /\ b.line_start > files[f].processed_lines
                /\ NamesIn(f, files[f].processed_lines + 1, b.line_end)
                     = NamesIn(f, b.line_start, b.line_end)
                /\ files'[f].processed_lines = b.line_end
        /\ op'.name = "MarkFeedingComplete" =>
             NamesIn(op'.n, files[op'.n].processed_lines + 1,
                     Len(FileLines(op'.n))) = {}
        /\ \A i, j \in DOMAIN batches' :
             (i # j /\ batches'[i].file_id = batches'[j].file_id)
               => \/ batches'[i].line_end < batches'[j].line_start
                  \/ batches'[j].line_end < batches'[i].line_start ]_vars

\* C36 witness: after a failure the feeder restarted, passed over the lines
\* already batched and the blank line behind them, and has just committed a
\* batch that starts at the first name behind the cursor, while the batch
\* of the earlier pass is still in the queue.
C36_ResumedBehindCursor ==
    /\ op.name = "CreateBatch"
    /\ feeder.skipToLine > 0
    /\ batches[op.batch].line_start = feeder.skipToLine + 2
    /\ \E i \in DOMAIN batches :
          /\ i # op.batch
          /\ batches[i].file_id = batches[op.batch].file_id
          /\ batches[i].line_end = feeder.skipToLine

\* C37: while the scanner shuts down gracefully (the shutdown channel is
\* closed, the work context is not cancelled) the heartbeat task runs for as
\* long as a worker is in its loop: it stops only when the work context is
\* cancelled or after every worker has returned.
C37_HeartbeatOutlivesWorkers ==
    [][ /\ (run'.heartbeat = "stopped" /\ ~run'.cancelled)
             => (run'.pc = "exited" /\ run'.others = 0)
        /\ (op'.name = "HeartbeatSend" /\ ~run.cancelled /\ ~run.returned)
             => op'.prev = "sent" ]_vars

\* C37 witness: shutdown has begun, the other worker has left, the worker
\* followed is still submitting the batch it holds, and the heartbeat task
\* has just sent a heartbeat.
C37_HeartbeatWhileDraining ==
    /\ op.name = "HeartbeatSend"
    /\ op.prev = "sent"
    /\ run.shutdown
    /\ ~run.cancelled
    /\ run.others = 0
    /\ run.pc \in {"submit", "retry"}
    /\ run.batch # NoBatch

\* C38: a worker built the way Scanner.Run builds it that reaches the top
\* of its loop with consecutive_errors >= 1 (and is not leaving on
\* shutdown or cancellation) waits a delay greater than 0 before it claims.
C38_PositiveBackoff ==
    [][ (op'.name = "RunTop" /\ run.config = "Scanner.Run"
           /\ run.consecutiveErrors >= 1 /\ run'.pc # "exited")
          => (run'.pc = "backoff" /\ run'.timer > 0) ]_vars

\* The goroutines of a batch can take a step, or the batch can return.
LookupCanGoOn ==
    \/ \E i \in 1..MaxFqdns : AcquireSem(i)
    \/ \E i \in 1..MaxFqdns : getResolver(i)
    \/ \E i \in 1..MaxFqdns : LookupLOC(i)
    \/ LookupLOCBatchReturn

\* C39: for every Workers setting, a LookupLOCBatch call does not panic and,
\* while its context is not cancelled and the scanner is not closed, is
\* never stuck: some goroutine can step or the call can return; when every
\* goroutine has returned there is one result per FQDN.
C39_BatchTerminates ==
    /\ (~dns.closed) => dns.pc # "panic"
    /\ (dns.pc = "batch" /\ ~dns.ctxDone /\ ~dns.closed) => ENABLED LookupCanGoOn
    /\ (dns.pc = "batch" /\ \A i \in 1..MaxFqdns : dns.g[i] \in {"done", "none"})
          => dns.results = Cardinality({i \in 1..MaxFqdns : dns.g[i] = "done"})

\* C40: for a scanner with Workers >= 1, once Close has returned every
\* resolver created for the pool has been closed, and no later step of a
\* lookup (the return of a borrowed resolver among them) panics.
C40_ClosedMeansAllClosed ==
    (dns.workers >= 1 /\ dns.closed)
      => (dns.freed = dns.created /\ dns.pc # "panic")
============================================================================
